---- MODULE Spec2Model ----
(***************************************************************************)
(* Model of backend/app/utils/scope_engine.py: the schedule normalizer and *)
(* cost aggregator (clean_scope), the scope generation pipeline            *)
(* (generate_project_scope), instruction-driven regeneration               *)
(* (regenerate_from_instructions) and finalize_scope, together with the    *)
(* finalized_scope.json blob and its file record.                          *)
(*                                                                         *)
(* Units.  A datetime is the number of days since 2025-01-01 (the inputs   *)
(* of the model lie in 2025 or later).  A date string "yyyy-mm-dd" is the  *)
(* triple <<y, m, d>>.  Efforts are in hundredths (1.0 is 100), money is   *)
(* in cents, so round(x, 2) is rounding to a whole number of units.        *)
(* A Python str is a record [pad, text]: text is the stripped text and pad *)
(* says whether white space surrounds it.  A comma separated string is the *)
(* sequence of its pieces between the commas.                              *)
(***************************************************************************)
EXTENDS Integers, Sequences, FiniteSets, TLC

(***************************************************************************)
(* Bounds of the model.                                                    *)
(***************************************************************************)
\* longest activity list handed to finalize_scope
MaxActs == 2

\* longest activity list of a draft handed to regenerate_from_instructions
MaxDraft == 10

\* the ProjectFile rows of diagrams a project may have
MaxFiles == 4

\* the most files handed to one _extract_text_from_files
MaxBatch == 3

\* the requests that run side by side on one project
MaxCallers == 2

(***************************************************************************)
(* Strings                                                                 *)
(***************************************************************************)
\* the list with the elements f[1], ..., f[n], each computed once
List(f) == f \o <<>>

Str(t) == [pad |-> FALSE, text |-> t]

Padded(t) == [pad |-> TRUE, text |-> t]

\* a missing key: what dict.get(key) returns for it
None == [pad |-> FALSE, text |-> "<None>"]

\* a JSON null: the key is there and its value is Python's None
Null == [pad |-> FALSE, text |-> "<null>"]

\* Python truthiness of a str-or-None value: None and "" are falsy
Falsy(v) == v = None \/ v = Null \/ v = Str("")

\* str.strip()
Strip(s) == [pad |-> FALSE, text |-> s.text]

\* _safe_str
SafeStr(v) == IF v \in {None, Null} THEN Str("") ELSE Strip(v)

LowerText(t) ==
  CASE t = "Backend Developer" -> "backend developer"
    [] t = "QA Engineer" -> "qa engineer"
    [] t = "Data Engineer" -> "data engineer"
    [] t = "Project Manager" -> "project manager"
    [] t = "Unassigned" -> "unassigned"
    [] t = "Remove" -> "remove"
    [] OTHER -> t

\* str.lower()
Lower(s) == [pad |-> s.pad, text |-> LowerText(s.text)]

\* [d.strip() for d in s.split(",") if d.strip()]
SplitStrip(s) ==
  SelectSeq(List([i \in DOMAIN s |-> Strip(s[i])]), LAMBDA p : p # Str(""))

\* ", ".join(list): every piece after the first follows ", "
JoinComma(list) ==
  IF list = <<>> THEN <<Str("")>>
  ELSE List([i \in DOMAIN list |-> IF i = 1 THEN list[i] ELSE Padded(list[i].text)])

(***************************************************************************)
(* Dates                                                                   *)
(***************************************************************************)
Missing == <<0, 0, 0>>

IsLeap(y) == (y % 4 = 0 /\ y % 100 # 0) \/ y % 400 = 0

DaysInMonth(y, m) ==
  CASE m \in {4, 6, 9, 11} -> 30
    [] m = 2 -> IF IsLeap(y) THEN 29 ELSE 28
    [] OTHER -> 31

RECURSIVE DaysBeforeMonth(_, _)
DaysBeforeMonth(y, m) ==
  IF m = 1 THEN 0 ELSE DaysBeforeMonth(y, m - 1) + DaysInMonth(y, m - 1)

RECURSIVE DaysBeforeYear(_)
DaysBeforeYear(y) ==
  IF y <= 2025 THEN 0
  ELSE DaysBeforeYear(y - 1) + (IF IsLeap(y - 1) THEN 366 ELSE 365)

\* datetime.strptime(val, "%Y-%m-%d") of a valid date
StrpTime(v) == DaysBeforeYear(v[1]) + DaysBeforeMonth(v[1], v[2]) + v[3] - 1

RECURSIVE YearOfDay(_, _)
YearOfDay(n, y) ==
  LET len == IF IsLeap(y) THEN 366 ELSE 365
  IN IF n < len THEN <<y, n>> ELSE YearOfDay(n - len, y + 1)

RECURSIVE MonthOfDay(_, _, _)
MonthOfDay(y, n, m) ==
  IF n < DaysInMonth(y, m) THEN <<y, m, n + 1>>
  ELSE MonthOfDay(y, n - DaysInMonth(y, m), m + 1)

\* dt.strftime("%Y-%m-%d")
StrfTime(n) ==
  LET yn == YearOfDay(n, 2025) IN MonthOfDay(yn[1], yn[2], 1)

\* _parse_date_safe
ParseDateSafe(val, fallback) ==
  LET \* what datetime.strptime(val, "%Y-%m-%d") accepts
      ValidDate(v) ==
        /\ v[1] >= 1
        /\ v[2] \in 1..12
        /\ v[3] >= 1
        /\ v[3] <= DaysInMonth(v[1], v[2])
  IN IF val = Missing THEN fallback
     ELSE IF ValidDate(val) THEN StrpTime(val) ELSE fallback

\* "today" of clean_scope: 2025-01-10 in every run of the model
Today == StrpTime(<<2025, 1, 10>>)

(***************************************************************************)
(* Arithmetic                                                              *)
(***************************************************************************)
Max(a, b) == IF a >= b THEN a ELSE b

Min(a, b) == IF a <= b THEN a ELSE b

\* round(n / d) to a whole unit, a tie going to the even neighbour
RoundDiv(n, d) ==
  LET q == n \div d
      r == n % d
  IN IF 2 * r < d THEN q
     ELSE IF 2 * r > d THEN q + 1
     ELSE IF q % 2 = 0 THEN q ELSE q + 1

RECURSIVE SumSeq(_)
SumSeq(s) == IF s = <<>> THEN 0 ELSE Head(s) + SumSeq(Tail(s))

RECURSIVE MinSeq(_)
MinSeq(s) == IF Len(s) = 1 THEN s[1] ELSE Min(Head(s), MinSeq(Tail(s)))

RECURSIVE MaxSeq(_)
MaxSeq(s) == IF Len(s) = 1 THEN s[1] ELSE Max(Head(s), MaxSeq(Tail(s)))

\* the number of times x occurs in the list s
Count(x, s) == Cardinality({i \in DOMAIN s : s[i] = x})

\* the list s without repeated elements, first occurrences kept
RECURSIVE Dedup(_)
Dedup(s) ==
  IF s = <<>> THEN <<>>
  ELSE LET front == Dedup(SubSeq(s, 1, Len(s) - 1))
           last == s[Len(s)]
       IN IF \E i \in DOMAIN front : front[i] = last THEN front
          ELSE Append(front, last)

RECURSIVE Flatten(_)
Flatten(ss) == IF ss = <<>> THEN <<>> ELSE Head(ss) \o Flatten(Tail(ss))

(***************************************************************************)
(* Rates                                                                   *)
(***************************************************************************)
\* ROLE_RATE_MAP, in cents per month
ROLE_RATE_MAP ==
  (Str("Backend Developer") :> 300000) @@ (Str("Frontend Developer") :> 280000) @@
  (Str("QA Analyst") :> 180000) @@ (Str("QA Engineer") :> 200000) @@
  (Str("Data Engineer") :> 280000) @@ (Str("Data Analyst") :> 220000) @@
  (Str("Data Architect") :> 350000) @@ (Str("UX Designer") :> 250000) @@
  (Str("UI/UX Designer") :> 260000) @@ (Str("Project Manager") :> 350000) @@
  (Str("Cloud Engineer") :> 300000) @@ (Str("BI Developer") :> 270000) @@
  (Str("DevOps Engineer") :> 320000) @@ (Str("Security Administrator") :> 300000) @@
  (Str("System Administrator") :> 280000) @@ (Str("Solution Architect") :> 400000)

\* the rate of a role found in no table, in cents per month
DefaultRate == 200000

\* a rate-card table with no rows
NoCards == [r \in {} |-> 0]

\* the cards of the default company behind those of the project's company,
\* role by role
GetRateMapMerged(db) == db.company @@ db.sigmoid @@ ROLE_RATE_MAP

\* get_rate_map_for_project: db holds the rate cards of the project's company
\* and of the default company
GetRateMapForProject(db) ==
  IF DOMAIN db.company # {} THEN db.company
  ELSE IF DOMAIN db.sigmoid # {} THEN db.sigmoid
  ELSE ROLE_RATE_MAP

(***************************************************************************)
(* clean_scope                                                             *)
(***************************************************************************)
\* owner = a.get("Owner") or "Unassigned"
ActOwner(a) == IF Falsy(a.Owner) THEN Str("Unassigned") ELSE a.Owner

\* the resources without the pieces spelled exactly as the owner
RawDepsExact(a) == SelectSeq(SplitStrip(a.Resources), LAMBDA r : r # ActOwner(a))

\* raw_deps: the resources, split on commas, without the owner
RawDeps(a) ==
  SelectSeq(SplitStrip(a.Resources), LAMBDA r : Lower(r) # Lower(ActOwner(a)))

\* s = _parse_date_safe(a.get("Start Date"), today)
ActStart(a) == ParseDateSafe(a.StartDate, Today)

\* the end date as parsed, left before the start when it is
EndAsParsed(a, s) == ParseDateSafe(a.EndDate, s + 30)

\* e = _parse_date_safe(a.get("End Date"), s + 30 days), forced to s + 30 if e < s
EndAfter(a, s) ==
  LET e == ParseDateSafe(a.EndDate, s + 30)
  IN IF e < s THEN s + 30 ELSE e

\* round(dur_days / 30.0, 2) with dur_days = max(1, (e - s).days)
EffortMonths(s, e) == RoundDiv(Max(1, e - s) * 100, 30)

\* the record appended to activities in the first loop; S and E are datetimes
ProcessActivity(a, idx) ==
  LET s == ActStart(a)
      e == EndAfter(a, s)
  IN [ID |-> idx,
      Activities |-> SafeStr(a.Activities),
      Description |-> SafeStr(a.Description),
      Owner |-> ActOwner(a),
      Resources |-> JoinComma(RawDeps(a)),
      S |-> s,
      E |-> e,
      EffortMonths |-> EffortMonths(s, e)]

\* the first loop over data["activities"]
ProcessAll(raw) == List([i \in DOMAIN raw |-> ProcessActivity(raw[i], i)])

\* the roles in the order in which a loop from the last activity to the first
\* meets them
RoleOrderLastFirst(raw) ==
  Dedup(Flatten(List([i \in DOMAIN raw |->
    <<ActOwner(raw[Len(raw) + 1 - i])>> \o RawDeps(raw[Len(raw) + 1 - i])])))

\* role_order: the roles in the order the first loop meets them
RoleOrder(raw) ==
  LET \* roles = [owner] + raw_deps
      ActRoles(a) == <<ActOwner(a)>> \o RawDeps(a)
  IN Dedup(Flatten(List([i \in DOMAIN raw |-> ActRoles(raw[i])])))

\* an unstable sort: a goes before the elements that start on the same day
RECURSIVE InsertByStartUnstable(_, _)
InsertByStartUnstable(sorted, a) ==
  IF sorted = <<>> THEN <<a>>
  ELSE IF Head(sorted).S < a.S
       THEN <<Head(sorted)>> \o InsertByStartUnstable(Tail(sorted), a)
       ELSE <<a>> \o sorted

\* list.sort(key = start date) is stable: a goes behind every element that
\* does not start later
RECURSIVE InsertByStart(_, _)
InsertByStart(sorted, a) ==
  IF sorted = <<>> THEN <<a>>
  ELSE IF Head(sorted).S <= a.S
       THEN <<Head(sorted)>> \o InsertByStart(Tail(sorted), a)
       ELSE <<a>> \o sorted

\* the activities left in the order of the request
NoSort(acts) == acts

RECURSIVE SortByStart(_)
SortByStart(acts) ==
  IF acts = <<>> THEN <<>>
  ELSE InsertByStart(SortByStart(SubSeq(acts, 1, Len(acts) - 1)), acts[Len(acts)])

\* the loop after the sort: ids 1..N, dates formatted as yyyy-mm-dd
Renumber(sorted) ==
  List([i \in DOMAIN sorted |->
     [ID |-> i,
      Activities |-> sorted[i].Activities,
      Description |-> sorted[i].Description,
      Owner |-> sorted[i].Owner,
      Resources |-> sorted[i].Resources,
      StartDate |-> StrfTime(sorted[i].S),
      EndDate |-> StrfTime(sorted[i].E),
      EffortMonths |-> sorted[i].EffortMonths]])

\* min_start = min(start_dates) if start_dates else today
MinStart(processed) ==
  IF processed = <<>> THEN Today
  ELSE MinSeq(List([i \in DOMAIN processed |-> processed[i].S]))

\* max_end = max(end_dates) if end_dates else min_start
MaxEnd(processed) ==
  IF processed = <<>> THEN MinStart(processed)
  ELSE MaxSeq(List([i \in DOMAIN processed |-> processed[i].E]))

\* duration = max(1.0, round(max(1, span) / 30.0, 2))
Duration(min_start, max_end) == Max(100, RoundDiv(Max(1, max_end - min_start) * 100, 30))

\* the whole months of the span, a started month left out
TotalMonthsFloor(min_start, max_end) == Max(1, (max_end - min_start) \div 30)

\* total_months = max(1, ceil(span / 30.0))
TotalMonths(min_start, max_end) ==
  LET \* math.ceil(n / d), d > 0
      CeilDiv(n, d) == -((-n) \div d)
  IN Max(1, CeilDiv(max_end - min_start, 30))

\* involved_roles of a cleaned activity in the second loop
InvolvedRoles(act) == <<ActOwner(act)>> \o SplitStrip(act.Resources)

\* overlap_days of the activity [s, e] with relative month m (1-based): the
\* window is [min_start + 30 (m - 1), min_start + 30 m], both ends included
OverlapDays(s, e, min_start, m) ==
  LET rel_start == min_start + (m - 1) * 30
      rel_end == min_start + m * 30
      overlap_start == Max(s, rel_start)
      overlap_end == Min(e, rel_end)
  IN IF overlap_end >= overlap_start THEN overlap_end - overlap_start + 1 ELSE 0

\* role_month_usage before the tiers: days per (role, month).  The second loop
\* parses the dates of the cleaned activities back from their strings; an
\* activity adds its overlap once for every entry of its involved_roles that
\* is the role.
RoleMonthDays(acts, order, min_start, months) ==
  LET ActEnd(a) == EndAfter(a, ActStart(a))
      parsed == List([i \in DOMAIN acts |->
                        [s |-> ActStart(acts[i]), e |-> ActEnd(acts[i]),
                         involved |-> InvolvedRoles(acts[i])]])
      roles == {order[i] : i \in DOMAIN order}
                 \cup UNION {{parsed[i].involved[j] : j \in DOMAIN parsed[i].involved}
                               : i \in DOMAIN parsed}
  IN [r \in roles |->
        List([m \in 1..months |->
           SumSeq(List([i \in DOMAIN parsed |->
                     Count(r, parsed[i].involved)
                       * OverlapDays(parsed[i].s, parsed[i].e, min_start, m)]))])]

\* the tiers with the 21-day boundary on the wrong side
DaysToEffortFrom21(days) ==
  IF days >= 21 THEN 100
  ELSE IF 15 <= days /\ days < 21 THEN 75
  ELSE IF 8 <= days /\ days < 15 THEN 50
  ELSE IF 1 <= days /\ days < 8 THEN 25
  ELSE 0

\* the 4-tier conversion of days to effort
DaysToEffort(days) ==
  IF days > 21 THEN 100
  ELSE IF 15 <= days /\ days <= 21 THEN 75
  ELSE IF 8 <= days /\ days < 15 THEN 50
  ELSE IF 1 <= days /\ days < 8 THEN 25
  ELSE 0

\* cost = round(total_effort * rate, 2)
BaseCost(effort, rate) == RoundDiv(effort * rate, 100)

\* the discount is applied when it is a number above 0
DiscountApplies(discount) == discount > 0

\* the discount applied a second time to the discounted cost
DiscountedCostTwice(cost, discount) ==
  RoundDiv(RoundDiv(cost * (100 - discount), 100) * (100 - discount), 100)

\* discounted_cost = round(original_cost * (1 - discount / 100.0), 2)
DiscountedCost(cost, discount) == RoundDiv(cost * (100 - discount), 100)

\* one entry of the resourcing plan
PlanEntry(idx, role, efforts, rate, discount) ==
  [ID |-> idx,
   Resources |-> role,
   Rate |-> rate,
   Months |-> efforts,
   Efforts |-> SumSeq(efforts),
   Cost |-> IF DiscountApplies(discount)
            THEN DiscountedCost(BaseCost(SumSeq(efforts), rate), discount)
            ELSE BaseCost(SumSeq(efforts), rate)]

\* clean_scope(db, data): data is [activities, discount_percentage], 0 standing
\* for an absent discount.  The overview keeps what is computed from the
\* activities; its other fields are copied from the input or the project.
CleanScope(db, data) ==
  LET \* ROLE_RATE_MAP_DYNAMIC.get(role, ROLE_RATE_MAP.get(role, 2000.0))
      RateOf(role, dynamic) ==
        IF role \in DOMAIN dynamic THEN dynamic[role]
        ELSE IF role \in DOMAIN ROLE_RATE_MAP THEN ROLE_RATE_MAP[role]
        ELSE DefaultRate
      raw == data.activities
      processed == ProcessAll(raw)
      acts == Renumber(SortByStart(processed))
      order == RoleOrder(raw)
      min_start == MinStart(processed)
      max_end == MaxEnd(processed)
      months == TotalMonths(min_start, max_end)
      days == RoleMonthDays(acts, order, min_start, months)
      rates == GetRateMapForProject(db)
      discount == data.discount_percentage
      plan == List([i \in DOMAIN order |->
                 PlanEntry(i, order[i],
                           List([m \in 1..months |-> DaysToEffort(days[order[i]][m])]),
                           RateOf(order[i], rates), discount)])
  IN [overview |->
        [Duration |-> Duration(min_start, max_end),
         Discount |-> IF DiscountApplies(discount) THEN discount ELSE 0,
         TotalCost |-> IF DiscountApplies(discount)
                       THEN SumSeq(List([i \in DOMAIN plan |-> plan[i].Cost])) ELSE 0],
      activities |-> acts,
      resourcing_plan |-> plan,
      discount_percentage |-> discount]

\* role_month_usage of clean_scope(data) just before the tiers are applied
UsageDays(raw) ==
  LET processed == ProcessAll(raw)
      min_start == MinStart(processed)
  IN RoleMonthDays(Renumber(SortByStart(processed)), RoleOrder(raw), min_start,
                   TotalMonths(min_start, MaxEnd(processed)))

(***************************************************************************)
(* Inputs of the model                                                     *)
(***************************************************************************)
Jan(d) == <<2025, 1, d>>

Feb(d) == <<2025, 2, d>>

ActivityChoices ==
  LET \* the activities whose owner and resources vary: no owner, the owner and a
      \* repeated role among the resources, white space around the names, no
      \* owner and "unassigned" as the only resource
      RoleChoices ==
        { [Owner |-> None,
           Resources |-> <<Str("qa engineer"), Padded("QA Engineer")>>,
           StartDate |-> Jan(1), EndDate |-> Jan(31)],
          [Owner |-> None,
           Resources |-> <<Padded("unassigned")>>,
           StartDate |-> Jan(8), EndDate |-> Jan(15)],
          [Owner |-> Str("QA Engineer"),
           Resources |-> <<Str("qa engineer"), Padded("Backend Developer"),
                           Padded("Backend Developer")>>,
           StartDate |-> Jan(8), EndDate |-> Jan(15)],
          [Owner |-> Padded("QA Engineer"),
           Resources |-> <<Padded("QA Engineer"), Padded(""), Str("Backend Developer")>>,
           StartDate |-> <<0, 0, 1>>, EndDate |-> <<0, 0, 1>>] }
      \* the activities whose dates vary
      DateChoices ==
        LET \* (Start Date, End Date) pairs as a caller may send them: spans of 31, 32, 1,
            \* 7, 8 and 14 days, a missing start, an end before the start, a date that is
            \* not in the calendar and a missing end, an end that is not in the calendar
            SpanChoices ==
              { <<Jan(1), Jan(31)>>, <<Jan(20), Feb(20)>>,
                <<Jan(1), Jan(1)>>, <<Jan(1), Jan(7)>>, <<Jan(1), Jan(8)>>, <<Jan(1), Jan(14)>>,
                <<Missing, Jan(31)>>, <<Jan(20), Jan(1)>>, <<Feb(30), Missing>>,
                <<Jan(5), Feb(30)>> }
        IN { [Owner |-> Str("Backend Developer"), Resources |-> <<Str("QA Engineer")>>,
              StartDate |-> sp[1], EndDate |-> sp[2]] : sp \in SpanChoices }
           \cup
           { [Owner |-> Str("QA Engineer"), Resources |-> <<Str("")>>,
              StartDate |-> sp[1], EndDate |-> sp[2]]
               : sp \in { <<Jan(20), Feb(20)>>, <<Jan(1), Jan(7)>> } }
  IN DateChoices \cup RoleChoices

TaskName(i) ==
  CASE i = 1 -> "Task 1" [] i = 2 -> "Task 2" [] i = 3 -> "Task 3" [] i = 4 -> "Task 4"
    [] i = 5 -> "Task 5" [] i = 6 -> "Task 6" [] i = 7 -> "Task 7" [] i = 8 -> "Task 8"
    [] i = 9 -> "Task 9" [] i = 10 -> "Task 10" [] OTHER -> "Task N"

\* the i-th activity of a request body
MkAct(i, c) ==
  [Activities |-> Padded(TaskName(i)), Description |-> Str("work"),
   Owner |-> c.Owner, Resources |-> c.Resources,
   StartDate |-> c.StartDate, EndDate |-> c.EndDate]

\* discount_percentage of a scope; 0 stands for an absent key
DiscountChoices == {0, 10}

BackendDeveloper == Str("Backend Developer")

QAEngineer == Str("QA Engineer")

(***************************************************************************)
(* The text a model call returns.  A text is the sequence of its parts:    *)
(* prose without braces, white space, a ``` fence (with or without the     *)
(* json tag), a serialized JSON object, the brackets around a JSON list,   *)
(* and a JSON object cut off before it is complete.  Every part has the    *)
(* number of characters it takes.                                          *)
(***************************************************************************)
\* no blob, no earlier call, no value
Absent == [absent |-> TRUE]

\* the empty dict {}
EmptyDict == [k \in {} |-> 0]

Part(kind, len, value) == [kind |-> kind, len |-> len, value |-> value]

Prose(n) == Part("prose", n, Absent)

Space == Part("space", 1, Absent)

Fence == Part("fence", 3, Absent)

Obj(o, n) == Part("object", n, o)

\* len(s)
TextLen(s) == SumSeq(List([i \in DOMAIN s |-> s[i].len]))

\* str.strip() of a text: white space at both ends is dropped
RECURSIVE StripText(_)
StripText(s) ==
  IF s = <<>> THEN s
  ELSE IF Head(s).kind = "space" THEN StripText(Tail(s))
  ELSE IF s[Len(s)].kind = "space" THEN StripText(SubSeq(s, 1, Len(s) - 1))
  ELSE s

\* ollama_chat: the stripped "response" of the reply, "" when the request
\* raises; a reply is [failed, text]
OllamaChat(reply) == IF reply.failed THEN <<>> ELSE StripText(reply.text)

\* _strip_code_fences: what lies between the first fence and the next one,
\* the whole text when there are not two fences
StripCodeFences(s) ==
  LET fences == {i \in DOMAIN s : s[i].kind = "fence"}
  IN IF Cardinality(fences) < 2 THEN s
     ELSE LET first == CHOOSE i \in fences : \A j \in fences : i <= j
              next == CHOOSE i \in fences \ {first} :
                        \A j \in fences \ {first} : i <= j
          IN SubSeq(s, first + 1, next - 1)

\* json.loads(text): a dict for one object, a list for a bracketed object,
\* an exception (ok = FALSE) for anything else
JsonLoads(s) ==
  IF Len(s) = 1 /\ s[1].kind = "object"
  THEN [ok |-> TRUE, type |-> "dict", value |-> s[1].value]
  ELSE IF Len(s) = 3 /\ s[1].kind = "[" /\ s[2].kind = "object" /\ s[3].kind = "]"
  THEN [ok |-> TRUE, type |-> "list", value |-> <<s[2].value>>]
  ELSE [ok |-> FALSE, type |-> "none", value |-> Absent]

\* _extract_json: the parsed text, else the parsed slice from the first "{"
\* to the last "}", else {}; the result is [type, value]
ExtractJson(s) ==
  LET \* the parts that hold a "{" and a "}"
      HasBraces(p) == p.kind \in {"object", "truncated"}
      raw == StripCodeFences(s)
      whole == JsonLoads(StripText(raw))
      braces == {i \in DOMAIN raw : HasBraces(raw[i])}
      start == CHOOSE i \in braces : \A j \in braces : i <= j
      end == CHOOSE i \in braces : \A j \in braces : j <= i
      slice == JsonLoads(SubSeq(raw, start, end))
  IN IF whole.ok THEN [type |-> whole.type, value |-> whole.value]
     ELSE IF braces # {} /\ slice.ok THEN [type |-> slice.type, value |-> slice.value]
     ELSE [type |-> "dict", value |-> EmptyDict]

\* d.get("activities") of a parsed dict is truthy
HasActivities(d) == "activities" \in DOMAIN d /\ d.activities # <<>>

\* d.get("activities", [])
GetActivities(d) == IF "activities" \in DOMAIN d THEN d.activities ELSE <<>>

\* the dict as clean_scope reads it: data.get("activities") or [] and
\* data.get("discount_percentage", 0)
AsScope(d) ==
  [activities |-> GetActivities(d),
   discount_percentage |->
     IF "discount_percentage" \in DOMAIN d THEN d.discount_percentage ELSE 0]

\* act.get(key, ""): None stands for a key the activity does not have
GetStr(v) == IF v = None THEN Str("") ELSE v

(***************************************************************************)
(* generate_project_scope                                                  *)
(***************************************************************************)
\* the shortest response that is taken for a scope
MinResponseLen == 50

\* a check that lets every response but the empty one through
TooShortOnlyEmpty(raw_text) == raw_text = <<>>

\* not raw_text or len(raw_text.strip()) < 50
TooShort(raw_text) ==
  raw_text = <<>> \/ TextLen(StripText(raw_text)) < MinResponseLen

\* the content guard raises on an activity: .strip() or .lower() of a null,
\* where a field is looked at only when the fields before it are not empty
GuardRaises(act) ==
  LET name == GetStr(act.Activities)
      description == GetStr(act.Description)
  IN IF name = Null THEN TRUE
     ELSE IF Strip(name) = Str("") THEN FALSE
     ELSE IF description = Null THEN TRUE
     ELSE IF Strip(description) = Str("") THEN FALSE
     ELSE GetStr(act.Owner) = Null

\* empty_fields_count > len(activities) * 0.7
ContentGuardRejects(activities) ==
  LET \* an activity the content guard counts: no name, no description, or an
      \* owner that is "" or "unassigned"
      EmptyFields(act) ==
        \/ Strip(GetStr(act.Activities)) = Str("")
        \/ Strip(GetStr(act.Description)) = Str("")
        \/ Lower(GetStr(act.Owner)) \in {Str("unassigned"), Str("")}
  IN Cardinality({i \in DOMAIN activities : EmptyFields(activities[i])}) * 10
       > Len(activities) * 7

(***************************************************************************)
(* regenerate_from_instructions.  An instruction is the sequence of its    *)
(* tokens: words (a role name is one word), the delimiters "," and ".",    *)
(* and percentages "<n>%".                                                 *)
(***************************************************************************)
Word(t) == [kind |-> "word", text |-> t, n |-> 0]

Percent(n) == [kind |-> "percent", text |-> "%", n |-> n]

\* digits that no percent sign follows, and the decimal point
Digits(n) == [kind |-> "digits", text |-> "", n |-> n]

Dot == [kind |-> "delim", text |-> ".", n |-> 0]

\* instructions.lower()
LowerInstr(instr) ==
  List([i \in DOMAIN instr |-> [instr[i] EXCEPT !.text = LowerText(@)]])

\* needle in hay, for the lower-case texts of the model
SubText(needle, hay) ==
  \/ needle = hay
  \/ <<needle, hay>> \in { <<"engineer", "qa engineer">>,
                           <<"engineer", "data engineer">>,
                           <<"developer", "backend developer">> }

\* word in instructions.lower()
Mentions(instr, word) ==
  \E i \in DOMAIN instr :
    instr[i].kind = "word" /\ SubText(word, LowerText(instr[i].text))

\* not instructions or not instructions.strip()
Blank(instr) == instr = <<>>

common_roles ==
  { "project manager", "business analyst", "data architect", "data engineer",
    "backend developer", "frontend developer", "qa engineer", "devops engineer",
    "cloud architect", "data analyst", "ux designer" }

\* the four thresholds: more than 50% unassigned, more than 50% without a
\* description, more than 30% named after a role, one date pair for all
ActivitiesAreValid(acts) ==
  LET \* act.get('Owner', '').lower() in ['unassigned', '']
      UnassignedOwner(act) == Lower(GetStr(act.Owner)) \in {Str("unassigned"), Str("")}
      \* not act.get('Description', '').strip()
      EmptyDescription(act) == Strip(GetStr(act.Description)) = Str("")
      \* act.get('Activities', '').lower().strip() in common_roles
      RoleNameActivity(act) == LowerText(GetStr(act.Activities).text) \in common_roles
      n == Len(acts)
      unassigned_count == Cardinality({i \in DOMAIN acts : UnassignedOwner(acts[i])})
      empty_desc_count == Cardinality({i \in DOMAIN acts : EmptyDescription(acts[i])})
      role_name_activities == Cardinality({i \in DOMAIN acts : RoleNameActivity(acts[i])})
      dates == {<<acts[i].StartDate, acts[i].EndDate>> : i \in DOMAIN acts}
  IN /\ ~(unassigned_count * 2 > n)
     /\ ~(empty_desc_count * 2 > n)
     /\ ~(role_name_activities * 10 > n * 3)
     /\ ~(Cardinality(dates) = 1 /\ n > 1)

RECURSIVE JoinWords(_)
JoinWords(ws) ==
  IF Len(ws) = 1 THEN ws[1].text
  ELSE ws[1].text \o " " \o JoinWords(Tail(ws))

\* the words behind position i up to the first delimiter ("from", "and", ",",
\* "."), when letters and spaces only lie between
RemoveMatch(l, i) ==
  LET rest == SubSeq(l, i + 1, Len(l))
      Letters(t) == t.kind = "word" /\ t.text \notin {"from", "and"}
      stops == {k \in DOMAIN rest : ~Letters(rest[k])}
      k == IF stops = {} THEN Len(rest)
           ELSE (CHOOSE j \in stops : \A h \in stops : j <= h) - 1
  IN [found |-> l[i].kind = "word" /\ l[i].text = "remove" /\ k >= 1
                /\ (k = Len(rest) \/ rest[k + 1].kind # "percent"),
      role |-> IF k >= 1 THEN JoinWords(SubSeq(rest, 1, k)) ELSE ""]

\* re.search(remove_pattern, instructions.lower()): the leftmost match
RoleToRemove(instr) ==
  LET l == LowerInstr(instr)
      hits == {i \in DOMAIN l : RemoveMatch(l, i).found}
  IN IF hits = {} THEN [found |-> FALSE, role |-> ""]
     ELSE RemoveMatch(l, CHOOSE i \in hits : \A j \in hits : i <= j)

\* the post-processing of one activity: an owner that matches the role is
\* replaced by the first resource (or 'Project Manager'), and the role is
\* filtered out of the resources
RemoveRoleFrom(act, role) ==
  LET \* resources and resources.strip(), for the string with the pieces res
      NotBlankPieces(res) == Len(res) > 1 \/ res[1].text # ""
      \* act.get('Resources') is truthy
      NotEmptyPieces(res) == Len(res) > 1 \/ res[1] # Str("")
      res == act.Resources
      owned == SubText(role, LowerText(GetStr(act.Owner).text))
      reassigned ==
        IF ~owned THEN act
        ELSE IF NotBlankPieces(res)
        THEN [act EXCEPT !.Owner = Strip(res[1]),
                         !.Resources = JoinComma(SplitStrip(Tail(res)))]
        ELSE [act EXCEPT !.Owner = Str("Project Manager")]
      resources_list == SplitStrip(reassigned.Resources)
      filtered_resources ==
        SelectSeq(resources_list, LAMBDA r : ~SubText(role, LowerText(r.text)))
  IN IF NotEmptyPieces(reassigned.Resources)
        /\ Len(filtered_resources) # Len(resources_list)
     THEN [reassigned EXCEPT !.Resources = JoinComma(filtered_resources)]
     ELSE reassigned

\* the first of the four discount patterns that matches, leftmost match:
\* "<n>% discount", "discount [of] <n>%", "apply <n>%", "give <n>%"
ExtractDiscount(instr) ==
  LET l == LowerInstr(instr)
      IsWord(i, w) == i \in DOMAIN l /\ l[i].kind = "word" /\ l[i].text = w
      IsPct(i) == i \in DOMAIN l /\ l[i].kind = "percent"
      p1 == {i \in DOMAIN l : IsPct(i) /\ IsWord(i + 1, "discount")}
      p2 == {i \in DOMAIN l : \/ IsPct(i) /\ IsWord(i - 1, "discount")
                              \/ IsPct(i) /\ IsWord(i - 1, "of") /\ IsWord(i - 2, "discount")}
      p3 == {i \in DOMAIN l : IsPct(i) /\ IsWord(i - 1, "apply")}
      p4 == {i \in DOMAIN l : IsPct(i) /\ IsWord(i - 1, "give")}
      First(p) == l[CHOOSE i \in p : \A j \in p : i <= j].n
  IN IF p1 # {} THEN [found |-> TRUE, n |-> First(p1)]
     ELSE IF p2 # {} THEN [found |-> TRUE, n |-> First(p2)]
     ELSE IF p3 # {} THEN [found |-> TRUE, n |-> First(p3)]
     ELSE IF p4 # {} THEN [found |-> TRUE, n |-> First(p4)]
     ELSE [found |-> FALSE, n |-> 0]

PreserveNothing(acts, draft) == acts

\* the safety check before the last clean_scope: when the updated scope has
\* no activities, the activities of the draft are put back
PreserveOriginal(acts, draft) == IF acts = <<>> THEN GetActivities(draft) ELSE acts

\* the scope regenerate_from_instructions hands to its last clean_scope, for
\* the dict the response parses to
UpdatedScope(draft, instr, updated) ==
  LET \* (new_activity_count < original_activity_count * 0.7 and not
      \* is_removal_instruction) or not activities_are_valid
      RestoreNeeded(new_count, original_count, removal, valid) ==
        (new_count * 10 < original_count * 7 /\ ~removal) \/ ~valid
      \* any(word in instructions.lower() for word in ['remove', 'delete'])
      IsRemovalInstruction == Mentions(instr, "remove") \/ Mentions(instr, "delete")
      new_acts == GetActivities(updated)
      valid == ~HasActivities(updated) \/ ActivitiesAreValid(new_acts)
      restored ==
        IF RestoreNeeded(Len(new_acts), Len(GetActivities(draft)),
                         IsRemovalInstruction, valid)
        THEN GetActivities(draft) ELSE new_acts
      match == RoleToRemove(instr)
      removed ==
        IF Mentions(instr, "remove") /\ restored # <<>> /\ match.found
        THEN List([i \in DOMAIN restored |-> RemoveRoleFrom(restored[i], match.role)])
        ELSE restored
      discount == ExtractDiscount(instr)
      given == AsScope(updated).discount_percentage
  IN [activities |-> PreserveOriginal(removed, draft),
      discount_percentage |-> IF discount.found /\ given = 0 THEN discount.n ELSE given]

\* the scope regenerate_from_instructions cleans: the updated scope, or the
\* draft when the response is not a dict (.get raises) or the validation
\* raises
RegeneratedScope(db, draft, instr, raw_text) ==
  LET \* the validation raises: .lower() or .strip() of a null name, description
      \* or owner
      ValidationRaises(acts) ==
        \E i \in DOMAIN acts :
          Null \in {acts[i].Owner, acts[i].Description, acts[i].Activities}
      parsed == ExtractJson(raw_text)
  IN IF parsed.type # "dict" THEN CleanScope(db, AsScope(draft))
     ELSE IF ValidationRaises(GetActivities(parsed.value))
     THEN CleanScope(db, AsScope(draft))
     ELSE CleanScope(db, UpdatedScope(draft, instr, parsed.value))

(***************************************************************************)
(* Model replies                                                           *)
(***************************************************************************)
\* an activity as a model writes it
ReplyAct(name, description, owner, start, end) ==
  [Activities |-> name, Description |-> description, Owner |-> owner,
   Resources |-> <<Str("QA Engineer")>>, StartDate |-> start, EndDate |-> end]

\* activities with content, on different dates
SoundActs(n) ==
  List([i \in 1..n |->
         ReplyAct(Str(TaskName(i)), Str("work"), Str("Backend Developer"),
                  Jan(i), Jan(i + 7))])

\* activities without content: named after a role, unassigned, no
\* description, all on the same dates
DegenerateActs(n) ==
  List([i \in 1..n |->
         ReplyAct(Str("QA Engineer"), Str(""), Str("Unassigned"), Jan(1), Jan(31))])

\* activities on different dates of which every third has a blank name,
\* the next no description and the next no owner
EmptyActs(n) ==
  List([i \in 1..n |->
         ReplyAct(IF i % 3 = 1 THEN Padded("") ELSE Str(TaskName(i)),
                  IF i % 3 = 2 THEN Str("") ELSE Str("work"),
                  IF i % 3 = 0 THEN Str("Unassigned") ELSE Str("Backend Developer"),
                  Feb(i), Feb(i + 7))])

\* a reply of the text-generation endpoint
Reply(text) == [failed |-> FALSE, text |-> text]

NoReply == [failed |-> TRUE, text |-> <<>>]

\* replies to the scope prompt: no reply, short texts on both sides of the
\* limit, an object alone, in fences, inside prose, prose alone, an object
\* without activities or with none, a list, a cut-off object, two objects,
\* and objects whose activities have no content: all, 2 of 3
ScopeReplies ==
  { NoReply,
    Reply(<<Prose(30)>>),
    Reply(<<Space, Prose(49), Space>>),
    Reply(<<Obj([activities |-> SoundActs(1)], 49)>>),
    Reply(<<Obj([activities |-> SoundActs(1), discount_percentage |-> 10], 50)>>),
    Reply(<<Obj([activities |-> SoundActs(2)], 400)>>),
    Reply(<<Prose(20), Fence, Space, Obj([activities |-> SoundActs(2)], 400), Space,
            Fence, Prose(10)>>),
    Reply(<<Prose(30), Obj([activities |-> SoundActs(1)], 200), Prose(15)>>),
    Reply(<<Prose(80)>>),
    Reply(<<Obj([overview |-> Absent], 60)>>),
    Reply(<<Obj([activities |-> <<>>], 60)>>),
    Reply(<<Part("[", 1, Absent), Obj([activities |-> SoundActs(1)], 200), Part("]", 1, Absent)>>),
    Reply(<<Part("truncated", 120, Absent)>>),
    Reply(<<Obj([activities |-> SoundActs(1)], 200), Prose(10),
            Obj([activities |-> SoundActs(2)], 400)>>),
    Reply(<<Obj([activities |-> DegenerateActs(3)], 600)>>),
    Reply(<<Obj([activities |-> DegenerateActs(2) \o SoundActs(1)], 600)>>) }

\* responses whose activities have no content: 2 of 3, 7 and 8 of 10, 3 of
\* 4, none of 2, and a null owner in one of 2
GuardReplies ==
  LET \* activities with content but for the owner of the first, which is null
      NullOwnerActs(n) ==
        List([i \in 1..n |->
               ReplyAct(Str(TaskName(i)), Str("work"),
                        IF i = 1 THEN Null ELSE Str("Backend Developer"),
                        Jan(i), Jan(i + 7))])
  IN { Reply(<<Obj([activities |-> DegenerateActs(2) \o SoundActs(1)], 600)>>),
       Reply(<<Obj([activities |-> EmptyActs(7) \o SoundActs(3)], 2000)>>),
       Reply(<<Obj([activities |-> EmptyActs(8) \o SoundActs(2)], 2000)>>),
       Reply(<<Obj([activities |-> EmptyActs(3) \o SoundActs(1)], 800)>>),
       Reply(<<Obj([activities |-> SoundActs(2)], 400)>>),
       Reply(<<Obj([activities |-> NullOwnerActs(2)], 400)>>) }

(***************************************************************************)
(* generate_architecture                                                   *)
(***************************************************************************)
\* the blobs of the diagrams of the project, under projects/<id>/
ArchPng == "architecture_<id>.png"

ArchSvg == "architecture_<id>.svg"

FallbackPng == "architecture_fallback_<id>.png"

FallbackSvg == "architecture_fallback_<id>.svg"

\* azure_blob.upload_bytes(data, path): the blob exists afterwards
UploadBytes(blobs, path) == blobs \cup {path}

\* azure_blob.delete_blob(path)
DeleteBlob(blobs, path) == blobs \ {path}

\* the after_delete hook of ProjectFile: the blob of a deleted row is deleted
\* (every diagram path has an extension)
DeleteBlobAfterFileDelete(blobs, target) ==
  LET \* azure_blob.safe_delete_blob(path)
      SafeDeleteBlob(from, path) == from \ {path}
  IN SafeDeleteBlob(blobs, target.file_path)

\* a ProjectFile row
ProjectFile(name, path) == [file_name |-> name, file_path |-> path]

\* what happens inside one generate_architecture: the calls of the model,
\* Graphviz on the model's DOT and on the fallback DOT, the uploads, and the
\* deletion of the old blob
AllArchOutcomes ==
  LET \* the calls of one _generate_dot_from_ai: every call but the last raises,
      \* and there are no more than three
      ChatRuns ==
        { <<"dot">>, <<"failed">>, <<"raises", "dot">>, <<"raises", "raises", "failed">>,
          <<"raises", "raises", "raises">> }
  IN { o \in [chat : ChatRuns, render : {"ok", "fails"},
              fallback_render : {"ok", "fails"},
              upload : {"ok", "raises"}, delete : {"ok", "raises"}] :
         LET dot == o.chat[Len(o.chat)] = "dot"
             replaced == dot /\ o.render = "ok"
         IN \* a step that is not reached is "ok"
            /\ ~dot => o.render = "ok"
            /\ replaced => o.fallback_render = "ok"
            /\ o.fallback_render = "fails" => o.upload = "ok"
            /\ o.delete = "raises" => replaced /\ o.upload = "ok" }

\* a diagram is rendered and stored at the first try, the model's call fails
\* and the fallback cannot be rendered, or the upload raises
ArchOutcomes ==
  { [chat |-> <<"dot">>, render |-> "ok", fallback_render |-> "ok",
     upload |-> "ok", delete |-> "ok"],
    [chat |-> <<"failed">>, render |-> "ok", fallback_render |-> "fails",
     upload |-> "ok", delete |-> "ok"],
    [chat |-> <<"dot">>, render |-> "ok", fallback_render |-> "ok",
     upload |-> "raises", delete |-> "ok"] }

\* _generate_dot_from_ai(retry): a call that raises is repeated while
\* retry < 2; what ollama_chat returns is returned, also when it is ""
RECURSIVE GenerateDotFromAi(_, _)
GenerateDotFromAi(chat, retry) ==
  IF chat[retry + 1] = "raises"
  THEN IF retry < 2 THEN GenerateDotFromAi(chat, retry + 1)
       ELSE [dot_code |-> "", calls |-> retry + 1]
  ELSE [dot_code |-> IF chat[retry + 1] = "dot" THEN "digraph" ELSE "",
        calls |-> retry + 1]

\* _generate_fallback_architecture on the stored blobs and rows st: nothing
\* when Graphviz fails, else the uploads (which may raise) and two new rows
GenerateFallbackArchitecture(st, o, calls) ==
  IF o.fallback_render = "fails"
  THEN [blobs |-> st.blobs, files |-> st.files, arch_blob |-> "",
        raised |-> FALSE, fallback |-> TRUE, calls |-> calls]
  ELSE IF o.upload = "raises"
  THEN [blobs |-> st.blobs, files |-> st.files, arch_blob |-> "",
        raised |-> TRUE, fallback |-> TRUE, calls |-> calls]
  ELSE [blobs |-> UploadBytes(UploadBytes(st.blobs, FallbackPng), FallbackSvg),
        files |-> st.files \o <<ProjectFile("architecture.png", FallbackPng),
                                ProjectFile("architecture.svg", FallbackSvg)>>,
        arch_blob |-> FallbackPng,
        raised |-> FALSE, fallback |-> TRUE, calls |-> calls]

\* Steps 5 to 7 of generate_architecture: the uploads, then the blob and the
\* row of an old architecture.png are deleted (the query has no order: any of
\* the rows may be the first), then the two new rows are added
ReplaceArchitecture(st, o, calls) ==
  LET \* a sequence without its i-th element
      RemoveAt(seq, i) == SubSeq(seq, 1, i - 1) \o SubSeq(seq, i + 1, Len(seq))
      uploaded == UploadBytes(UploadBytes(st.blobs, ArchPng), ArchSvg)
      rows == <<ProjectFile("architecture.png", ArchPng),
                ProjectFile("architecture.svg", ArchSvg)>>
      olds == {i \in DOMAIN st.files : st.files[i].file_name = "architecture.png"}
      Done(blobs, files) ==
        [blobs |-> blobs, files |-> files \o rows, arch_blob |-> ArchPng,
         raised |-> FALSE, fallback |-> FALSE, calls |-> calls]
  IN IF olds = {} THEN {Done(uploaded, st.files)}
     ELSE IF o.delete = "raises" THEN {Done(uploaded, st.files)}
     ELSE { Done(DeleteBlobAfterFileDelete(
                   DeleteBlob(uploaded, st.files[i].file_path), st.files[i]),
                 RemoveAt(st.files, i)) : i \in olds }

\* generate_architecture on the stored blobs and rows st, when o happens:
\* the set of its possible results
GenerateArchitecture(st, o) ==
  LET dot == GenerateDotFromAi(o.chat, 0)
  IN IF dot.dot_code = "" THEN {GenerateFallbackArchitecture(st, o, dot.calls)}
     ELSE IF o.render = "fails" THEN {GenerateFallbackArchitecture(st, o, dot.calls)}
     ELSE IF o.upload = "raises"
     THEN {[blobs |-> st.blobs, files |-> st.files, arch_blob |-> "",
            raised |-> TRUE, fallback |-> FALSE, calls |-> dot.calls]}
     ELSE ReplaceArchitecture(st, o, dot.calls)

(***************************************************************************)
(* Drafts, instructions and replies of a regeneration                      *)
(***************************************************************************)
\* the i-th activity of a draft: the owners alternate, QA Engineer is a
\* resource of the first and the third of every three
DraftAct(i) ==
  [Activities |-> Str(TaskName(i)), Description |-> Str("work"),
   Owner |-> IF i % 3 = 2 THEN Str("QA Engineer") ELSE Str("Backend Developer"),
   Resources |-> CASE i % 3 = 1 -> <<Str("QA Engineer")>>
                   [] i % 3 = 2 -> <<Str("")>>
                   [] OTHER -> <<Str("Data Engineer"), Padded("QA Engineer")>>,
   StartDate |-> Jan(i), EndDate |-> Jan(i + 7)]

\* the drafts a client sends: scopes an earlier call returned, with 1, 3 and
\* MaxDraft activities, with and without a discount, and a scope edited by
\* hand whose activities are not in the order of their dates
DraftChoices(rates) ==
  LET DraftBody(n, d) ==
        [activities |-> List([i \in 1..n |-> DraftAct(i)]), discount_percentage |-> d]
  IN { CleanScope(rates, DraftBody(n, d)) : n \in {1, 3, MaxDraft}, d \in DiscountChoices }
     \cup { [activities |-> <<DraftAct(3), DraftAct(1), DraftAct(2)>>,
             discount_percentage |-> 0] }

InstructionChoices ==
  { <<>>,
    <<Word("improve"), Word("the"), Word("descriptions")>>,
    <<Word("Remove"), Word("QA Engineer")>>,
    <<Word("delete"), Word("the"), Word("last"), Word("activity")>>,
    <<Word("apply"), Percent(10), Word("discount")>>,
    <<Word("apply"), Percent(150), Word("discount")>>,
    <<Word("apply"), Digits(10), Dot, Percent(5), Word("discount")>> }

\* replies to the regeneration prompt: none, prose, a list, and objects with
\* fewer activities than the draft, as many, and activities without content
RegenReplies ==
  LET \* activities with content that all have the same dates
      SameDateActs(n) ==
        List([i \in 1..n |->
               ReplyAct(Str(TaskName(i)), Str("work"), Str("Backend Developer"),
                        Jan(1), Jan(31))])
      \* activities named after roles, on different dates
      RoleNamedActs(n) ==
        List([i \in 1..n |->
               ReplyAct(Padded("QA Engineer"), Str("work"), Str("Backend Developer"),
                        Jan(i), Jan(i + 7))])
      \* activities without an owner, on different dates
      UnassignedActs(n) ==
        List([i \in 1..n |->
               ReplyAct(Str(TaskName(i)), Str("work"), None, Jan(i), Jan(i + 7))])
      \* activities without a description, on different dates
      UndescribedActs(n) ==
        List([i \in 1..n |->
               ReplyAct(Str(TaskName(i)), Padded(""), Str("Backend Developer"),
                        Jan(i), Jan(i + 7))])
      \* activities owned by QA Engineer whose only resource is their owner (the
      \* prompt tells the model to fall back to the owner when there is no resource)
      OwnResourceActs(n) ==
        List([i \in 1..n |->
               ReplyAct(Str(TaskName(i)), Str("work"), Str("QA Engineer"),
                        Jan(i), Jan(i + 7))])
      \* activities with content of which the second has a null owner
      NullOwnerInActs(n) ==
        List([i \in 1..n |->
               ReplyAct(Str(TaskName(i)), Str("work"),
                        IF i = 2 THEN Null ELSE Str("Backend Developer"),
                        Jan(i), Jan(i + 7))])
  IN { NoReply,
       Reply(<<Prose(80)>>),
       Reply(<<Obj([activities |-> <<>>], 60)>>),
       Reply(<<Obj([activities |-> NullOwnerInActs(3)], 600)>>),
       Reply(<<Part("[", 1, Absent), Obj([activities |-> SoundActs(3)], 600), Part("]", 1, Absent)>>),
       Reply(<<Obj([activities |-> SoundActs(3)], 600)>>),
       Reply(<<Obj([activities |-> SoundActs(7)], 1400)>>),
       Reply(<<Fence, Obj([activities |-> SoundActs(MaxDraft)], 2000), Fence>>),
       Reply(<<Obj([activities |-> DegenerateActs(3)], 600)>>),
       Reply(<<Obj([activities |-> DegenerateActs(3), discount_percentage |-> 5], 600)>>),
       Reply(<<Obj([activities |-> SameDateActs(3)], 600)>>),
       Reply(<<Obj([activities |-> RoleNamedActs(3)], 600)>>),
       Reply(<<Obj([activities |-> UnassignedActs(3)], 600)>>),
       Reply(<<Obj([activities |-> UndescribedActs(3)], 600)>>),
       Reply(<<Obj([activities |-> OwnResourceActs(3)], 600)>>) }

(***************************************************************************)
(* embed_text_ollama                                                       *)
(***************************************************************************)
\* JSON values of a response, tagged with their Python type
JNum(n) == [t |-> "num", v |-> <<n>>]

JStr(x) == [t |-> "str", v |-> <<x>>]

JList(l) == [t |-> "list", v |-> l]

JDict(d) == [t |-> "dict", v |-> d]

\* the [] at the end of the or-chain
JEmpty == JList(<<>>)

\* bool(value) of a JSON value
Truthy(j) ==
  CASE j.t = "num" -> j.v # <<0>>
    [] j.t = "str" -> j.v # <<"">>
    [] j.t = "list" -> j.v # <<>>
    [] OTHER -> DOMAIN j.v # {}

\* what requests.post and resp.json() come to: the request raises, the
\* status is an error, the body is no JSON, or the body parses to data
Refused == [status |-> "refused", data |-> JEmpty]

HttpError == [status |-> "http", data |-> JEmpty]

Json(data) == [status |-> "json", data |-> data]

\* a list of floats
Vector(a, b) == JList(<<JNum(a), JNum(b)>>)

\* the normalization of the nested structure: a flat vector is wrapped, of a
\* list of dicts the "embedding" values are taken; embeddings[0] of an empty
\* list and "embedding" in a number raise
Normalized(embeddings) ==
  IF embeddings.t # "list" THEN [raised |-> FALSE, value |-> embeddings]
  ELSE IF embeddings.v # <<>> /\ embeddings.v[1].t = "num"
  THEN [raised |-> FALSE, value |-> JList(<<embeddings>>)]
  ELSE IF embeddings.v = <<>> THEN [raised |-> TRUE, value |-> JEmpty]
  ELSE IF embeddings.v[1].t # "dict" THEN [raised |-> FALSE, value |-> embeddings]
  ELSE IF \E i \in DOMAIN embeddings.v : embeddings.v[i].t = "num"
  THEN [raised |-> TRUE, value |-> JEmpty]
  ELSE LET with == SelectSeq(embeddings.v,
                     LAMBDA d : d.t = "dict" /\ "embedding" \in DOMAIN d.v)
       IN [raised |-> FALSE,
           value |-> JList(List([i \in DOMAIN with |-> with[i].v.embedding]))]

\* one pass of the loop body: the vectors returned, or an exception
Attempt(resp) ==
  LET \* data.get("embedding") or data.get("embeddings") or data.get("data") or []
      Embeddings(data) ==
        LET Get(key) == IF key \in DOMAIN data.v THEN data.v[key] ELSE JEmpty
        IN IF Truthy(Get("embedding")) THEN Get("embedding")
           ELSE IF Truthy(Get("embeddings")) THEN Get("embeddings")
           ELSE IF Truthy(Get("data")) THEN Get("data")
           ELSE JEmpty
      \* the vectors of a list: its non-empty lists of numbers
      ValidVectors(embeddings) ==
        IF embeddings.t # "list" THEN <<>>
        ELSE SelectSeq(embeddings.v,
               LAMBDA x : /\ x.t = "list"
                          /\ x.v # <<>>
                          /\ \A i \in DOMAIN x.v : x.v[i].t = "num")
  IN IF resp.status # "json" THEN [ok |-> FALSE, vectors |-> <<>>]
     ELSE IF resp.data.t # "dict" THEN [ok |-> FALSE, vectors |-> <<>>]
     ELSE LET norm == Normalized(Embeddings(resp.data))
              valid_vectors == IF norm.raised THEN <<>> ELSE ValidVectors(norm.value)
          IN [ok |-> valid_vectors # <<>>, vectors |-> valid_vectors]

\* the except branch never goes on to another attempt
RetryNever(attempt) == FALSE

\* the except branch: if attempt == 0: time.sleep(1.5); continue
RetryAfter(attempt) == attempt = 0

\* for attempt in range(2), from attempt on, with the responses the requests
\* get: the result and the calls made
RECURSIVE EmbedLoop(_, _)
EmbedLoop(responses, attempt) ==
  LET a == Attempt(responses[attempt + 1])
  IN IF a.ok THEN [result |-> a.vectors, trace |-> <<"requests.post">>]
     ELSE IF RetryAfter(attempt) /\ attempt + 1 < 2
     THEN LET rest == EmbedLoop(responses, attempt + 1)
          IN [result |-> rest.result,
              trace |-> <<"requests.post", "time.sleep">> \o rest.trace]
     ELSE [result |-> <<>>, trace |-> <<"requests.post">>]

\* embed_text_ollama(texts) with the responses its requests get
EmbedTextOllama(texts, responses) ==
  LET \* texts = [t.strip() for t in texts if t and t.strip()], a str being taken
      \* as the list of itself
      CleanTexts ==
        LET list == IF texts.list THEN texts.value ELSE <<texts.value>>
            kept == SelectSeq(list, LAMBDA x : ~Falsy(x) /\ Strip(x) # Str(""))
        IN List([i \in DOMAIN kept |-> Strip(kept[i])])
  IN IF CleanTexts = <<>> THEN [result |-> <<>>, trace |-> <<>>]
     ELSE EmbedLoop(responses, 0)

\* responses of the embedding endpoint with vectors in them: a flat one, a
\* list, dicts, a list with invalid entries, another dimension, an empty
\* "embedding" beside "embeddings"
GoodResponses ==
  { Json(JDict([embedding |-> Vector(1, 2)])),
    Json(JDict([embeddings |-> JList(<<Vector(1, 2), Vector(3, 4)>>)])),
    Json(JDict([data |-> JList(<<JDict([embedding |-> Vector(1, 2)]),
                                 JDict([index |-> JNum(1)])>>)])),
    Json(JDict([embeddings |-> JList(<<Vector(1, 2), JEmpty, JList(<<JStr("x")>>)>>)])),
    Json(JDict([embeddings |-> JList(<<JList(<<JNum(1), JNum(2), JNum(3)>>)>>)])),
    Json(JDict([embedding |-> JEmpty, embeddings |-> JList(<<Vector(5, 6)>>)])) }

\* responses without: a refused request, an error status, no JSON, a list, an
\* object without the keys, an empty list, dicts without "embedding", invalid
\* vectors only, a string, a flat list with a non-number
BadResponses ==
  { Refused, HttpError, [status |-> "badjson", data |-> JEmpty],
    Json(JList(<<Vector(1, 2)>>)),
    Json(JDict([model |-> JStr("m")])),
    Json(JDict([embeddings |-> JEmpty])),
    Json(JDict([data |-> JList(<<JDict([index |-> JNum(1)])>>)])),
    Json(JDict([embeddings |-> JList(<<JEmpty, JList(<<JStr("x")>>)>>)])),
    Json(JDict([embeddings |-> JStr("abc")])),
    Json(JDict([embedding |-> JList(<<JNum(1), JStr("x")>>)])) }

(***************************************************************************)
(* _extract_text_from_files                                                *)
(***************************************************************************)
\* a file of the batch: whether download_bytes gives its bytes, whether the
\* parser of its suffix reads them, and the content read (None when
\* extract_pdf_text gives no str)
File(download, parse, content) ==
  [download |-> download, parse |-> parse, content |-> content]

\* the files of a batch: two with text, one of them with white space around
\* it, a blank one, one whose download raises, one whose parser raises, one
\* whose content is no str
FileChoices ==
  { File("ok", "ok", Str("alpha")),
    File("ok", "ok", Padded("beta")),
    File("ok", "ok", Padded("")),
    File("raises", "ok", Str("gamma")),
    File("ok", "raises", Str("delta")),
    File("ok", "ok", None) }

\* process_file: the parser's exception is caught there and leaves content
\* "", content.strip() is outside that try
ProcessFile(f) ==
  LET content == IF f.parse = "raises" THEN Str("") ELSE f.content
  IN IF content = None THEN [raised |-> TRUE, text |-> Str("")]
     ELSE [raised |-> FALSE, text |-> Strip(content)]

\* a failure of one task ends all the tasks of the group
TasksCancelled(tasks, i) == List([j \in DOMAIN tasks |-> "done"])

\* the except of _extract_single: the task ends, the others go on
TasksAfterFailure(tasks, i) == [tasks EXCEPT ![i] = "done"]

\* the task group is left without waiting for its tasks
NoneAwaited(tasks) == TRUE

\* the end of async with anyio.create_task_group(): every task has finished
AllFinished(tasks) == \A i \in DOMAIN tasks : tasks[i] = "done"

\* "\n\n".join(results)
RECURSIVE Join(_)
Join(list) ==
  IF list = <<>> THEN ""
  ELSE IF Len(list) = 1 THEN list[1].text
  ELSE list[1].text \o "\n\n" \o Join(Tail(list))

(***************************************************************************)
(* State                                                                   *)
(***************************************************************************)
VARIABLES
  db,               \* the rate cards of the project's company and the default company
  blob,             \* the content of projects/<id>/finalized_scope.json
  file_records,     \* the number of ProjectFile rows named finalized_scope.json
  store,            \* the diagram blobs that exist in the blob store
  project_files,    \* the ProjectFile rows of the diagrams of the project
  arch_blob,        \* the path the last generate_architecture returned, "" for none
  arch_run,         \* what the last generate_architecture did
  project_duration, \* project.duration, 0 when it is not set
  call,             \* the handler that ran last
  scope_data,       \* the scope (draft) handed to that call
  instructions,     \* the instructions handed to that call
  raw_text,         \* the text the model returned to that call
  result,           \* what that call returned
  trace,            \* the calls that handler made, in order
  prev_data,        \* the scope handed to the call before, when this call repeats it
  prev_result,      \* what the call before returned
  embed,            \* the last embed_text_ollama: its input, the responses, its result
  files,            \* the files handed to _extract_text_from_files
  task,             \* where the task of each file is
  results,          \* the texts appended so far
  rfp_text,         \* what _extract_text_from_files returned
  saving,           \* the callers that are saving finalized_scope.json: where each is
  pipeline          \* one generate_project_scope, step by step: where it is, the steps
                    \* it has begun, and its model and embedding calls in flight

\* the variables of embed_text_ollama and of _extract_text_from_files, and
\* of the callers that run side by side: the handlers above leave them alone
other_vars == <<embed, files, task, results, rfp_text, saving, pipeline>>

vars == <<other_vars, db, blob, file_records, store, project_files, arch_blob, arch_run,
          project_duration, call, scope_data,
          instructions, raw_text, result, trace, prev_data, prev_result>>

\* no generate_architecture has run
NoArchRun ==
  [chat |-> <<>>, render |-> "ok", fallback_render |-> "ok", upload |-> "ok",
   delete |-> "ok", calls |-> 0, fallback |-> FALSE, raised |-> FALSE]

\* a caller that is not between its query and its commit
NotSaving == [pc |-> "idle", fn |-> "", old_file |-> FALSE, cleaned |-> Absent]

Init ==
  LET \* the rate cards in the database: none, cards of the project's company, or
      \* cards of the default company only
      DbChoices ==
        { [company |-> NoCards, sigmoid |-> NoCards],
          [company |-> (BackendDeveloper :> 250055), sigmoid |-> (QAEngineer :> 190000)],
          [company |-> NoCards, sigmoid |-> (QAEngineer :> 210000)] }
  IN /\ db \in DbChoices
     /\ blob = Absent
     /\ file_records = 0
     /\ store = {}
     /\ project_files = <<>>
     /\ arch_blob = ""
     /\ arch_run = NoArchRun
     /\ project_duration = 0
     /\ call = "none"
     /\ scope_data = Absent
     /\ instructions = <<>>
     /\ raw_text = <<>>
     /\ result = Absent
     /\ trace = <<>>
     /\ prev_data = Absent
     /\ prev_result = Absent
     /\ embed = [called |-> FALSE, texts |-> <<>>, responses |-> <<>>, trace |-> <<>>, result |-> <<>>]
     /\ files = <<>>
     /\ task = <<>>
     /\ results = <<>>
     /\ rfp_text = [started |-> FALSE, returned |-> FALSE, text |-> ""]
     /\ saving = [p \in 1..MaxCallers |-> NotSaving]
     /\ pipeline = [pc |-> "extract", log |-> <<>>, in_flight |-> <<>>, calls |-> 0]

\* the save of finalized_scope.json: the row is reused when there is one, the
\* blob is overwritten
SaveFinalized(scope) ==
  /\ blob' = scope
  /\ file_records' = IF file_records > 0 THEN file_records ELSE 1

\* project.duration = str(overview.get("Duration") or project.duration)
UpdateMetadata(scope) == project_duration' = scope.overview.Duration

\* finalize_scope(db, project_id, scope_data) on a request body.  A request
\* after earlier calls overwrites all they left and reaches the same states,
\* so request bodies are drawn for the first call only.
FinalizeScope ==
  /\ call = "none"
  /\ \E n \in 0..MaxActs : \E c \in [1..n -> ActivityChoices] : \E d \in DiscountChoices :
      LET data == [activities |-> List([i \in 1..n |-> MkAct(i, c[i])]),
                   discount_percentage |-> d]
      IN /\ call' = "finalize"
         /\ scope_data' = data
         /\ result' = CleanScope(db, data)
         /\ UpdateMetadata(result')
         /\ SaveFinalized(result')
         /\ trace' = <<"clean_scope", "upload_bytes">>
         /\ prev_data' = Absent
         /\ prev_result' = Absent
         /\ UNCHANGED <<other_vars, db, store, project_files, arch_blob, arch_run,
                      instructions, raw_text>>

\* finalize_scope on the scope the last call returned
FinalizeAgain ==
  /\ call \in {"finalize", "again"}
  /\ call' = "again"
  /\ scope_data' = result
  /\ result' = CleanScope(db, result)
  /\ UpdateMetadata(result')
  /\ SaveFinalized(result')
  /\ trace' = <<"clean_scope", "upload_bytes">>
  /\ prev_data' = scope_data
  /\ prev_result' = result
  /\ UNCHANGED <<other_vars, db, store, project_files, arch_blob, arch_run,
                      instructions, raw_text>>

\* finalize_scope on the last request body with its discount_percentage removed
FinalizeWithoutDiscount ==
  /\ call = "finalize"
  /\ scope_data.discount_percentage # 0
  /\ call' = "undiscounted"
  /\ scope_data' = [scope_data EXCEPT !.discount_percentage = 0]
  /\ result' = CleanScope(db, scope_data')
  /\ UpdateMetadata(result')
  /\ SaveFinalized(result')
  /\ trace' = <<"clean_scope", "upload_bytes">>
  /\ prev_data' = scope_data
  /\ prev_result' = result
  /\ UNCHANGED <<other_vars, db, store, project_files, arch_blob, arch_run,
                      instructions, raw_text>>

\* finalize_scope, called any number of times
SpecNorm ==
  Init /\ [][FinalizeScope \/ FinalizeAgain \/ FinalizeWithoutDiscount]_vars

\* generate_project_scope returns {} and has done nothing but call the model
GenerationFails ==
  /\ result' = EmptyDict
  /\ trace' = <<"ollama_chat">>
  /\ arch_blob' = ""
  /\ arch_run' = NoArchRun
  /\ UNCHANGED <<blob, file_records, store, project_files, project_duration>>

\* cleaned_scope["architecture_diagram"] = arch_blob
DiagramPathAsReturned(path) == path

\* cleaned_scope["architecture_diagram"] = arch_blob or None
DiagramPath(path) == IF path = "" THEN "<None>" ELSE path

\* generate_project_scope(db, project): one call of the model; a short text,
\* a response that is not a dict (.get raises), a null field the content
\* guard trips over (.strip raises) and activities without content end the
\* call with {}; else the response is cleaned, the diagram generated
\* and finalized_scope.json saved, the last two inside their own try/except
\* (a project without a company is linked to the default company first: db
\* then holds the cards of the default company only)
GenerateProjectScopeOf(replies, outcomes) ==
  \E reply \in replies :
    LET text == OllamaChat(reply)
        raw == ExtractJson(text)
    IN /\ call' = "generate"
       /\ raw_text' = text
       /\ scope_data' = Absent
       /\ instructions' = <<>>
       /\ prev_data' = Absent
       /\ prev_result' = Absent
       /\ UNCHANGED <<other_vars, db>>
       /\ IF TooShort(text) THEN GenerationFails
          ELSE IF raw.type # "dict" THEN GenerationFails
          ELSE IF HasActivities(raw.value)
                  /\ \E i \in DOMAIN raw.value.activities :
                       GuardRaises(raw.value.activities[i])
          THEN GenerationFails
          ELSE IF HasActivities(raw.value)
                  /\ ContentGuardRejects(raw.value.activities)
          THEN GenerationFails
          ELSE LET cleaned == CleanScope(db, AsScope(raw.value))
               IN \E o \in outcomes : \E save \in {"saved", "raises"} :
                  \E run \in GenerateArchitecture(
                               [blobs |-> store, files |-> project_files], o) :
                    LET cleaned_scope ==
                          ("architecture_diagram" :> DiagramPath(run.arch_blob))
                            @@ cleaned
                    IN /\ Len(run.files) <= MaxFiles
                       /\ result' = cleaned_scope
                       /\ UpdateMetadata(cleaned)
                       /\ store' = run.blobs
                       /\ project_files' = run.files
                       /\ arch_blob' = run.arch_blob
                       /\ arch_run' = [chat |-> o.chat, render |-> o.render,
                                       fallback_render |-> o.fallback_render,
                                       upload |-> o.upload, delete |-> o.delete,
                                       calls |-> run.calls,
                                       fallback |-> run.fallback,
                                       raised |-> run.raised]
                       /\ IF save = "saved"
                          THEN /\ SaveFinalized(cleaned_scope)
                               /\ trace' = <<"ollama_chat", "clean_scope",
                                             "generate_architecture", "upload_bytes">>
                          ELSE /\ UNCHANGED <<blob, file_records>>
                               /\ trace' = <<"ollama_chat", "clean_scope",
                                             "generate_architecture">>

\* generate_project_scope on the replies of the scope prompt
SpecGen == Init /\ [][GenerateProjectScopeOf(ScopeReplies, ArchOutcomes)]_vars

\* generate_project_scope on responses around the limit of the content guard
SpecGuard == Init /\ [][GenerateProjectScopeOf(GuardReplies, ArchOutcomes)]_vars

\* the diagram does not depend on the rates: a project without rate cards
InitDiagram == Init /\ db = [company |-> NoCards, sigmoid |-> NoCards]

\* generate_project_scope with all that can happen inside
\* generate_architecture, for a response that is accepted and one that is not
SpecDiagram ==
  /\ InitDiagram
  /\ [][GenerateProjectScopeOf({ Reply(<<Obj([activities |-> SoundActs(2)], 400)>>),
                                  Reply(<<Prose(30)>>) },
                                AllArchOutcomes)]_vars

\* the variables of the scope handlers
scope_vars ==
  <<db, blob, file_records, store, project_files, arch_blob, arch_run,
    project_duration, call, scope_data, instructions, raw_text, result, trace,
    prev_data, prev_result, saving, pipeline>>

\* embed_text_ollama(texts); a call leaves nothing behind for the next, so
\* one call is made
EmbedText ==
  LET \* the texts a caller hands over: none, blank ones, chunks, a chunk and a
      \* None, a str
      TextChoices ==
        { [list |-> TRUE, value |-> <<>>],
          [list |-> TRUE, value |-> <<Padded(""), Str("")>>],
          [list |-> TRUE, value |-> <<Padded("alpha"), Str("")>>],
          [list |-> TRUE, value |-> <<Str("alpha"), Null, Str("beta")>>],
          [list |-> FALSE, value |-> Str("alpha")] }
  IN /\ ~embed.called
     /\ \E texts \in TextChoices :
          \E first \in GoodResponses \cup BadResponses :
            \E second \in GoodResponses \cup BadResponses :
              LET run == EmbedTextOllama(texts, <<first, second>>)
              IN embed' = [called |-> TRUE, texts |-> texts,
                           responses |-> <<first, second>>,
                           trace |-> run.trace, result |-> run.result]
     /\ UNCHANGED <<scope_vars, files, task, results, rfp_text>>

SpecEmbed == InitDiagram /\ [][EmbedText]_vars

\* _extract_text_from_files(files) up to the task group: every file gets its
\* task, none has run yet
StartExtraction ==
  /\ ~rfp_text.started
  /\ \E n \in 0..MaxBatch :
       \E fs \in [1..n -> FileChoices] :
         /\ files' = List(fs)
         /\ task' = List([i \in 1..n |-> "spawned"])
  /\ results' = <<>>
  /\ rfp_text' = [rfp_text EXCEPT !.started = TRUE]
  /\ UNCHANGED <<scope_vars, embed>>

\* _extract_single up to the end of await azure_blob.download_bytes
Download(i) ==
  /\ task[i] = "spawned"
  /\ task' = IF files[i].download = "raises" THEN TasksAfterFailure(task, i)
             ELSE [task EXCEPT ![i] = "downloaded"]
  /\ UNCHANGED <<scope_vars, embed, files, results, rfp_text>>

\* _extract_single from anyio.to_thread.run_sync(process_file) to its end
Process(i) ==
  LET \* if text: results.append(text)
      Appended(list, text) == IF text = Str("") THEN list ELSE Append(list, text)
  IN /\ task[i] = "downloaded"
     /\ LET done == ProcessFile(files[i])
        IN IF done.raised
           THEN /\ task' = TasksAfterFailure(task, i)
                /\ UNCHANGED results
           ELSE /\ task' = [task EXCEPT ![i] = "done"]
                /\ results' = Appended(results, done.text)
     /\ UNCHANGED <<scope_vars, embed, files, rfp_text>>

\* the task group is left and the texts are joined
ReturnText ==
  /\ rfp_text.started
  /\ ~rfp_text.returned
  /\ AllFinished(task)
  /\ rfp_text' = [rfp_text EXCEPT !.returned = TRUE, !.text = Join(results)]
  /\ UNCHANGED <<scope_vars, embed, files, task, results>>

SpecExtract ==
  /\ InitDiagram
  /\ [][\/ StartExtraction
        \/ \E i \in DOMAIN task : Download(i)
        \/ \E i \in DOMAIN task : Process(i)
        \/ ReturnText]_vars

\* regenerate_from_instructions(db, project, draft, instructions).  Blank
\* instructions return the cleaned draft and save nothing.  Else the model is
\* called once, the scope is rebuilt from its response, cleaned, the project
\* metadata updated and finalized_scope.json overwritten.  A call with
\* instructions overwrites all that earlier calls left, so those are drawn for
\* the first call only.
RegenerateFromInstructions ==
  \E draft \in DraftChoices(db) : \E instr \in InstructionChoices :
    /\ call' = "regenerate"
    /\ scope_data' = draft
    /\ instructions' = instr
    /\ prev_data' = Absent
    /\ prev_result' = Absent
    /\ UNCHANGED <<other_vars, db, store, project_files, arch_blob, arch_run>>
    /\ IF Blank(instr)
       THEN /\ call = "regenerate"
            /\ instructions # <<>>
            /\ raw_text' = <<>>
            /\ result' = CleanScope(db, AsScope(draft))
            /\ trace' = <<"clean_scope">>
            /\ UNCHANGED <<blob, file_records, project_duration>>
       ELSE /\ call = "none"
            /\ \E reply \in RegenReplies :
                 /\ raw_text' = OllamaChat(reply)
                 /\ result' = RegeneratedScope(db, draft, instr, raw_text')
                 /\ UpdateMetadata(result')
                 /\ SaveFinalized(result')
                 /\ trace' = <<"ollama_chat", "clean_scope", "upload_bytes">>

SpecRegen == Init /\ [][RegenerateFromInstructions]_vars

(***************************************************************************)
(* Saving finalized_scope.json from requests that run side by side.  Every *)
(* request has its own session; the query, the upload and the commit are   *)
(* awaited one after the other, and another request may run in between.    *)
(***************************************************************************)
\* the query for the row named finalized_scope.json, in generate_project_scope,
\* regenerate_from_instructions or finalize_scope: old_file is the first row
\* found, or a new ProjectFile when there is none
SelectOldFile(p) ==
  /\ saving[p].pc = "idle"
  /\ \E fn \in {"generate_project_scope", "regenerate_from_instructions", "finalize_scope"} :
       \E n \in 1..2 :
         saving' = [saving EXCEPT ![p] =
                      [pc |-> "selected", fn |-> fn, old_file |-> file_records > 0,
                       cleaned |-> CleanScope(db, [activities |-> SoundActs(n),
                                                   discount_percentage |-> 0])]]
  /\ UNCHANGED <<embed, files, task, results, rfp_text, pipeline, db, blob, file_records, store,
                 project_files, arch_blob, arch_run, project_duration, call, scope_data,
                 instructions, raw_text, result, trace, prev_data, prev_result>>

\* await azure_blob.upload_bytes(..., blob_name, overwrite=True)
UploadScope(p) ==
  /\ saving[p].pc = "selected"
  /\ blob' = saving[p].cleaned
  /\ saving' = [saving EXCEPT ![p].pc = "uploaded"]
  /\ UNCHANGED <<embed, files, task, results, rfp_text, pipeline, db, file_records, store,
                 project_files, arch_blob, arch_run, project_duration, call, scope_data,
                 instructions, raw_text, result, trace, prev_data, prev_result>>

\* db.add(old_file); await db.commit(): a row that was found is updated, a
\* new ProjectFile is inserted
CommitFile(p) ==
  /\ saving[p].pc = "uploaded"
  /\ file_records' = IF saving[p].old_file THEN file_records ELSE file_records + 1
  /\ saving' = [saving EXCEPT ![p] = NotSaving]
  /\ UNCHANGED <<embed, files, task, results, rfp_text, pipeline, db, blob, store,
                 project_files, arch_blob, arch_run, project_duration, call, scope_data,
                 instructions, raw_text, result, trace, prev_data, prev_result>>

SpecSave ==
  /\ Init
  /\ [][\E p \in 1..MaxCallers : SelectOldFile(p) \/ UploadScope(p) \/ CommitFile(p)]_vars

(***************************************************************************)
(* The steps of one generate_project_scope.  The extraction is the task    *)
(* group above; every other step is awaited (or called) before the next    *)
(* one begins.  in_flight holds the model and embedding calls that have    *)
(* begun and not returned.                                                 *)
(***************************************************************************)
EmbedQueryUnjoined ==
  /\ pipeline.pc = "extract"
  /\ rfp_text.started
  /\ pipeline' = [pipeline EXCEPT !.pc = "embed", !.log = Append(@, "embed"),
                                  !.in_flight = Append(@, "embed_text_ollama")]
  /\ UNCHANGED <<embed, files, task, results, rfp_text, saving, db, blob, file_records,
                 store, project_files, arch_blob, arch_run, project_duration, call,
                 scope_data, instructions, raw_text, result, trace, prev_data, prev_result>>

\* _rag_retrieve up to embed_text_ollama([query]), once the text of the files
\* has been returned and trimmed
EmbedQuery ==
  /\ pipeline.pc = "extract"
  /\ rfp_text.returned
  /\ pipeline' = [pipeline EXCEPT !.pc = "embed", !.log = Append(@, "embed"),
                                  !.in_flight = Append(@, "embed_text_ollama")]
  /\ UNCHANGED <<embed, files, task, results, rfp_text, saving, db, blob, file_records,
                 store, project_files, arch_blob, arch_run, project_duration, call,
                 scope_data, instructions, raw_text, result, trace, prev_data, prev_result>>

\* the rest of _rag_retrieve: without a vector the search is skipped
Retrieve ==
  /\ pipeline.pc = "embed"
  /\ \E vector \in BOOLEAN :
       pipeline' = [pipeline EXCEPT
                      !.pc = "retrieved",
                      !.log = IF vector THEN Append(@, "retrieve") ELSE @,
                      !.in_flight = SelectSeq(@, LAMBDA c : c # "embed_text_ollama")]
  /\ UNCHANGED <<embed, files, task, results, rfp_text, saving, db, blob, file_records,
                 store, project_files, arch_blob, arch_run, project_duration, call,
                 scope_data, instructions, raw_text, result, trace, prev_data, prev_result>>

\* _build_scope_prompt and the start of ollama_chat(prompt) in a thread
StartChat ==
  /\ pipeline.pc = "retrieved"
  /\ pipeline' = [pipeline EXCEPT !.pc = "generate",
                                  !.log = @ \o <<"build prompt", "generate">>,
                                  !.in_flight = Append(@, "ollama_chat")]
  /\ UNCHANGED <<embed, files, task, results, rfp_text, saving, db, blob, file_records,
                 store, project_files, arch_blob, arch_run, project_duration, call,
                 scope_data, instructions, raw_text, result, trace, prev_data, prev_result>>

\* the awaited ollama_chat returns: a short text ends the call, else the
\* content guard runs (it may reject or raise) and clean_scope follows
FinishChat ==
  /\ pipeline.pc = "generate"
  /\ \E outcome \in {"short", "rejected", "raises", "accepted"} :
       pipeline' = [pipeline EXCEPT
                      !.pc = IF outcome = "accepted" THEN "diagram" ELSE "done",
                      !.log = IF outcome = "short" THEN @
                              ELSE IF outcome = "accepted" THEN @ \o <<"validate", "normalize">>
                              ELSE Append(@, "validate"),
                      !.in_flight = SelectSeq(@, LAMBDA c : c # "ollama_chat")]
  /\ UNCHANGED <<embed, files, task, results, rfp_text, saving, db, blob, file_records,
                 store, project_files, arch_blob, arch_run, project_duration, call,
                 scope_data, instructions, raw_text, result, trace, prev_data, prev_result>>

\* generate_architecture: _generate_dot_from_ai starts ollama_chat in a thread
StartDiagram ==
  /\ pipeline.pc = "diagram"
  /\ pipeline' = [pipeline EXCEPT !.pc = "diagram_chat",
                                  !.log = Append(@, "diagram generation"),
                                  !.in_flight = Append(@, "ollama_chat"),
                                  !.calls = @ + 1]
  /\ UNCHANGED <<embed, files, task, results, rfp_text, saving, db, blob, file_records,
                 store, project_files, arch_blob, arch_run, project_duration, call,
                 scope_data, instructions, raw_text, result, trace, prev_data, prev_result>>

\* the awaited call returns or raises; after a raise it is made again, three
\* times at most; rendering and the uploads follow
FinishDiagram ==
  /\ pipeline.pc = "diagram_chat"
  /\ \E outcome \in {"dot", "failed", "raises"} :
       pipeline' = [pipeline EXCEPT
                      !.pc = IF outcome = "raises" /\ pipeline.calls < 3
                             THEN "diagram" ELSE "persist",
                      !.in_flight = SelectSeq(@, LAMBDA c : c # "ollama_chat")]
  /\ UNCHANGED <<embed, files, task, results, rfp_text, saving, db, blob, file_records,
                 store, project_files, arch_blob, arch_run, project_duration, call,
                 scope_data, instructions, raw_text, result, trace, prev_data, prev_result>>

\* Step 3: finalized_scope.json is saved, whatever became of the diagram
Persist ==
  /\ pipeline.pc = "persist"
  /\ pipeline' = [pipeline EXCEPT !.pc = "done", !.log = Append(@, "persist")]
  /\ UNCHANGED <<embed, files, task, results, rfp_text, saving, db, blob, file_records,
                 store, project_files, arch_blob, arch_run, project_duration, call,
                 scope_data, instructions, raw_text, result, trace, prev_data, prev_result>>

SpecPipeline ==
  /\ InitDiagram
  /\ [][\/ StartExtraction
        \/ \E i \in DOMAIN task : Download(i)
        \/ \E i \in DOMAIN task : Process(i)
        \/ ReturnText
        \/ EmbedQuery \/ Retrieve \/ StartChat \/ FinishChat
        \/ StartDiagram \/ FinishDiagram \/ Persist]_vars

(***************************************************************************)
(* Properties of the normalizer (clean_scope reached through               *)
(* finalize_scope), checked under SpecNorm                                 *)
(***************************************************************************)
\* a yyyy-mm-dd string is on or before another
DateLeq(a, b) ==
  \/ a[1] < b[1]
  \/ a[1] = b[1] /\ a[2] < b[2]
  \/ a[1] = b[1] /\ a[2] = b[2] /\ a[3] <= b[3]

\* the per-role per-month allocation of a scope, as a set of (role, months)
Allocation(scope) ==
  {<<scope.resourcing_plan[i].Resources, scope.resourcing_plan[i].Months>>
     : i \in DOMAIN scope.resourcing_plan}

\* the plan entry of a role
EntryOf(scope, role) ==
  CHOOSE e \in {scope.resourcing_plan[i] : i \in DOMAIN scope.resourcing_plan}
    : e.Resources = role

PlanRoles(scope) ==
  {scope.resourcing_plan[i].Resources : i \in DOMAIN scope.resourcing_plan}

\* C1: normalizing the output of a normalization (same today, same rate cards,
\* same discount) returns the same activities (ids, owners, resources, dates,
\* effort-months) and the same per-role per-month allocation.
C1_Idempotent ==
  call = "again" =>
    /\ result.activities = prev_result.activities
    /\ Allocation(result) = Allocation(prev_result)

\* a request of two activities out of order, one with an unusable start date,
\* has been normalized twice
C1_Witness ==
  /\ call = "again"
  /\ prev_data # prev_result
  /\ Len(prev_data.activities) = 2
  /\ prev_data.activities[1].StartDate = Jan(20)
  /\ prev_data.activities[2].StartDate = Missing
  /\ result.activities[1].StartDate = Jan(10)

\* C2: a normalization of N activities returns N activities with ids 1..N in
\* list order, start dates that never decrease along the list, and every end
\* date on or after its start date.
C2_SortedDense ==
  call # "none" =>
    /\ Len(result.activities) = Len(scope_data.activities)
    /\ \A i \in DOMAIN result.activities :
         /\ result.activities[i].ID = i
         /\ DateLeq(result.activities[i].StartDate, result.activities[i].EndDate)
         /\ i > 1 => DateLeq(result.activities[i - 1].StartDate,
                             result.activities[i].StartDate)

\* a request whose second activity starts first and whose first activity ends
\* before it starts
C2_Witness ==
  /\ call = "finalize"
  /\ Len(scope_data.activities) = 2
  /\ scope_data.activities[1].StartDate = Jan(20)
  /\ scope_data.activities[1].EndDate = Jan(1)
  /\ scope_data.activities[2].StartDate = Jan(1)
  /\ result.activities[1].Activities = Str("Task 2")

\* the effort the specification assigns to d overlap days
Tier(d) ==
  CASE d > 21 -> 100
    [] d >= 15 /\ d <= 21 -> 75
    [] d >= 8 /\ d < 15 -> 50
    [] d >= 1 /\ d < 8 -> 25
    [] d = 0 -> 0

\* C3: every (role, month) cell with accumulated day count d holds 1.0 for
\* d > 21, 0.75 for 15 <= d <= 21, 0.5 for 8 <= d < 15, 0.25 for 1 <= d < 8 and
\* 0 for d = 0, hence a value of {0, 0.25, 0.5, 0.75, 1.0}.
C3_Quantization ==
  call # "none" =>
    LET days == UsageDays(scope_data.activities)
    IN \A i \in DOMAIN result.resourcing_plan :
         LET e == result.resourcing_plan[i]
         IN \A m \in DOMAIN e.Months :
              /\ e.Months[m] = Tier(days[e.Resources][m])
              /\ e.Months[m] \in {0, 25, 50, 75, 100}

\* one role with 21 accumulated days and 0.75, another with 14 days and 0.5
C3_Witness ==
  /\ call = "finalize"
  /\ LET days == UsageDays(scope_data.activities)
     IN \E r1, r2 \in PlanRoles(result) :
          /\ days[r1][1] = 21 /\ EntryOf(result, r1).Months[1] = 75
          /\ days[r2][1] = 14 /\ EntryOf(result, r2).Months[1] = 50

\* the request of the end-to-end scenario: A and B
ScenarioAB ==
  << MkAct(1, [Owner |-> BackendDeveloper, Resources |-> <<QAEngineer>>,
               StartDate |-> Jan(1), EndDate |-> Jan(31)]),
     MkAct(2, [Owner |-> QAEngineer, Resources |-> <<Str("")>>,
               StartDate |-> Jan(20), EndDate |-> Feb(20)]) >>

\* C4: for A (2025-01-01..2025-01-31, Backend Developer, resource QA Engineer)
\* and B (2025-01-20..2025-02-20, QA Engineer) there are 2 months, Backend
\* Developer has 1.0 and 0.0, QA Engineer has 1.0 in month 1 and in month 2
\* the tier of B's days alone (2025-01-31..2025-02-20, 21 days).
C4_Scenario ==
  (call = "finalize" /\ scope_data.activities = ScenarioAB) =>
    /\ EntryOf(result, BackendDeveloper).Months = <<100, 0>>
    /\ EntryOf(result, QAEngineer).Months = <<100, Tier(21)>>

\* the set of roles taking part in a cleaned activity: its owner and its
\* listed resources
Participants(act) ==
  {InvolvedRoles(act)[j] : j \in DOMAIN InvolvedRoles(act)}

\* C5: the day count of (r, m) fed to the tiers is the sum, over the
\* activities r takes part in as owner or resource, of the activity's overlap
\* with month m, each activity counted once; no cell exceeds 1.0.
C5_AccumulateOnce ==
  call # "none" =>
    LET days == UsageDays(scope_data.activities)
        acts == result.activities
        min_start == MinSeq(List([i \in DOMAIN acts |-> StrpTime(acts[i].StartDate)]))
    IN \A r \in DOMAIN days : \A m \in DOMAIN days[r] :
         /\ days[r][m] =
              SumSeq(List([i \in DOMAIN acts |->
                 IF r \in Participants(acts[i])
                 THEN OverlapDays(StrpTime(acts[i].StartDate),
                                  StrpTime(acts[i].EndDate), min_start, m)
                 ELSE 0]))
         /\ EntryOf(result, r).Months[m] <= 100

\* C6: Cost = round(Efforts * Rate * (1 - discount/100), 2) for every entry,
\* Efforts being the sum of the monthly values (a number of quarters, which
\* keeps the product within TLC's integers).
C6_CostLaw ==
  call # "none" =>
    \A i \in DOMAIN result.resourcing_plan :
      LET e == result.resourcing_plan[i]
      IN /\ e.Efforts = SumSeq(e.Months)
         /\ e.Efforts % 25 = 0
         /\ e.Cost = RoundDiv(((e.Efforts \div 25) * e.Rate)
                                * (100 - result.discount_percentage), 400)

\* C7: with and without a discount the activities, the monthly values, the
\* efforts and the rates agree; only the cost differs, by the discount applied
\* once to the undiscounted cost.
C7_DiscountFrame ==
  call = "undiscounted" =>
    /\ result.activities = prev_result.activities
    /\ result.overview.Duration = prev_result.overview.Duration
    /\ Len(result.resourcing_plan) = Len(prev_result.resourcing_plan)
    /\ \A i \in DOMAIN result.resourcing_plan :
         LET plain == result.resourcing_plan[i]
             disc == prev_result.resourcing_plan[i]
         IN /\ plain.ID = disc.ID
            /\ plain.Resources = disc.Resources
            /\ plain.Rate = disc.Rate
            /\ plain.Months = disc.Months
            /\ plain.Efforts = disc.Efforts
            /\ disc.Cost = RoundDiv(plain.Cost * (100 - prev_data.discount_percentage), 100)

\* the same request with a 10% discount and without: costs 3000.00 and 2700.00
C7_Witness ==
  /\ call = "undiscounted"
  /\ prev_data.discount_percentage = 10
  /\ \E i \in DOMAIN result.resourcing_plan :
       /\ result.resourcing_plan[i].Cost = 300000
       /\ prev_result.resourcing_plan[i].Cost = 270000

(***************************************************************************)
(* Properties of regenerate_from_instructions, checked under SpecRegen     *)
(***************************************************************************)
\* the activities of a response are degenerate: more than 30% are named after
\* a role, or they all have the same dates, or more than half have no owner,
\* or more than half have no description
C8_Degenerate(acts) ==
  LET n == Len(acts)
      Share(P(_)) == Cardinality({i \in DOMAIN acts : P(acts[i])})
      NamedAfterRole(a) ==
        a.Activities.text \in {"QA Engineer", "Backend Developer", "Data Engineer",
                               "Project Manager"}
      NoOwner(a) == a.Owner = None \/ a.Owner.text \in {"", "Unassigned", "unassigned"}
      NoDescription(a) == a.Description = None \/ a.Description.text = ""
  IN /\ n > 0
     /\ \/ Share(NamedAfterRole) * 10 > n * 3
        \/ n > 1 /\ \A i, j \in DOMAIN acts :
                      /\ acts[i].StartDate = acts[j].StartDate
                      /\ acts[i].EndDate = acts[j].EndDate
        \/ Share(NoOwner) * 2 > n
        \/ Share(NoDescription) * 2 > n

\* the last call was a regeneration whose response has fewer than 70% of the
\* draft's activities while the instruction has no removal word, or has
\* degenerate activities
C8_GuardTrips ==
  /\ call = "regenerate"
  /\ instructions # <<>>
  /\ LET parsed == ExtractJson(raw_text)
         new == GetActivities(parsed.value)
     IN /\ parsed.type = "dict"
        /\ \/ /\ Len(new) * 10 < Len(scope_data.activities) * 7
              /\ ~Mentions(instructions, "remove")
              /\ ~Mentions(instructions, "delete")
           \/ C8_Degenerate(new)

\* C8: when the regression guard trips, the returned and persisted scope has
\* the draft's activities unchanged (as clean_scope normalizes them), and
\* only the overview may differ from the draft: the resourcing plan and the
\* discount are the normalized draft's
C8_RestoredVerbatim ==
  C8_GuardTrips =>
    LET norm == CleanScope(db, AsScope(scope_data))
    IN /\ blob = result
       /\ result.activities = norm.activities
       /\ result.resourcing_plan = norm.resourcing_plan
       /\ result.discount_percentage = norm.discount_percentage

(***************************************************************************)
(* Properties of generate_project_scope, checked under SpecGen             *)
(***************************************************************************)
\* C9: after generate_project_scope, either {} was returned and nothing was
\* written to finalized_scope.json, or what was written is the normalized
\* scope with the activities extracted from the response; a response from
\* which no JSON object or no activities can be extracted leaves
\* finalized_scope.json unwritten
C9_NoGarbledPersisted ==
  call = "generate" =>
    LET written == \E i \in DOMAIN trace : trace[i] = "upload_bytes"
        parsed == ExtractJson(raw_text)
        extracted == IF parsed.type = "dict" THEN GetActivities(parsed.value) ELSE <<>>
    IN /\ result = EmptyDict => ~written
       /\ written => /\ blob = result
                     /\ extracted # <<>>
                     /\ Len(blob.activities) = Len(extracted)
       /\ extracted = <<>> => ~written

\* C10: a call of generate_project_scope whose model call fails or returns
\* fewer than 50 characters returns {}, has called the model once and nothing
\* else (no normalization, no diagram), and leaves the finalized_scope.json
\* blob and its file record as they were
C10_GenerationFailure ==
  [][(call' = "generate" /\ TextLen(raw_text') < 50) =>
       /\ result' = EmptyDict
       /\ trace' = <<"ollama_chat">>
       /\ blob' = blob
       /\ file_records' = file_records]_vars

\* a response that is too short, of a call made when a finalized scope was
\* stored
C10_Witness ==
  /\ call = "generate"
  /\ raw_text # <<>>
  /\ TextLen(raw_text) < 50
  /\ result = EmptyDict
  /\ blob # Absent
  /\ file_records = 1

\* the activities of the last response, when it is long enough and parses to
\* a dict
C11_Returned ==
  IF call = "generate" /\ TextLen(raw_text) >= 50 /\ ExtractJson(raw_text).type = "dict"
  THEN GetActivities(ExtractJson(raw_text).value)
  ELSE <<>>

\* the number of returned activities with an empty name or description, or
\* with an owner that is empty or 'unassigned'
C11_EmptyCount ==
  LET Empty(v) == v \in {None, Null} \/ v.text = ""
      Unowned(v) == v \in {None, Null} \/ v.text \in {"", "unassigned", "Unassigned"}
  IN Cardinality({i \in DOMAIN C11_Returned :
                    \/ Empty(C11_Returned[i].Activities)
                    \/ Empty(C11_Returned[i].Description)
                    \/ Unowned(C11_Returned[i].Owner)})

\* C11: when strictly more than 70% of the returned activities have an empty
\* name, description or owner, generate_project_scope returns {} and nothing
\* is normalized or persisted; at 70% or less the response is accepted and
\* normalized: the returned scope has the activities of the response
C11_ContentGuard ==
  C11_Returned # <<>> =>
    IF C11_EmptyCount * 10 > Len(C11_Returned) * 7
    THEN result = EmptyDict /\ trace = <<"ollama_chat">>
    ELSE /\ result # EmptyDict
         /\ \E i \in DOMAIN trace : trace[i] = "clean_scope"
         /\ Len(result.activities) = Len(C11_Returned)


(***************************************************************************)
(* Post-processing of regenerate_from_instructions, checked under          *)
(* SpecRegen                                                               *)
(***************************************************************************)
\* the last call handled the instruction "Remove QA Engineer" and the model
\* answered with an object that has activities
C12_RemoveHandled ==
  /\ call = "regenerate"
  /\ instructions = <<Word("Remove"), Word("QA Engineer")>>
  /\ ExtractJson(raw_text).type = "dict"
  /\ HasActivities(ExtractJson(raw_text).value)

\* C12: after regenerate_from_instructions handled "Remove QA Engineer", no
\* activity of the returned scope is owned by QA Engineer and no Resources
\* list names QA Engineer
C12_RoleRemoved ==
  C12_RemoveHandled =>
    \A i \in DOMAIN result.activities :
      LET a == result.activities[i]
      IN /\ LowerText(a.Owner.text) # "qa engineer"
         /\ \A k \in DOMAIN a.Resources :
              LowerText(a.Resources[k].text) # "qa engineer"


\* the percentage an instruction names, in tenths of a percent: "10%" is
\* 100 and "10.5%" is 105
C13_Asked ==
  LET i == CHOOSE k \in DOMAIN instructions : instructions[k].kind = "percent"
  IN IF i > 2 /\ instructions[i - 1] = Dot /\ instructions[i - 2].kind = "digits"
     THEN instructions[i - 2].n * 10 + instructions[i].n
     ELSE instructions[i].n * 10

\* the last call handled an instruction with a percentage and the word
\* discount, and the object the model answered with has no discount_percentage
C13_DiscountAsked ==
  /\ call = "regenerate"
  /\ \E k \in DOMAIN instructions : instructions[k].kind = "percent"
  /\ Mentions(instructions, "discount")
  /\ ExtractJson(raw_text).type = "dict"
  /\ AsScope(ExtractJson(raw_text).value).discount_percentage = 0

\* C13: when the instruction names a percentage with the word discount and
\* the model's object has no discount_percentage, the returned scope has that
\* percentage as discount_percentage and every cost of its plan is the
\* undiscounted cost reduced by it
C13_DiscountRecorded ==
  C13_DiscountAsked =>
    /\ result.discount_percentage * 10 = C13_Asked
    /\ \A i \in DOMAIN result.resourcing_plan :
         LET e == result.resourcing_plan[i]
         IN e.Cost * 1000 = BaseCost(e.Efforts, e.Rate) * (1000 - C13_Asked)
            \/ e.Cost = RoundDiv(BaseCost(e.Efforts, e.Rate) * (1000 - C13_Asked), 1000)


(***************************************************************************)
(* Rate resolution, checked under SpecNorm                                 *)
(***************************************************************************)
\* the first rate available for a role: the card of the project's company,
\* the card of the default company, the built-in table, else the default
C14_FirstAvailable(role) ==
  IF role \in DOMAIN db.company THEN db.company[role]
  ELSE IF role \in DOMAIN db.sigmoid THEN db.sigmoid[role]
  ELSE IF role \in DOMAIN ROLE_RATE_MAP THEN ROLE_RATE_MAP[role]
  ELSE DefaultRate

C14_Card ==
  IF db.company # NoCards THEN db.company
  ELSE IF db.sigmoid # NoCards THEN db.sigmoid
  ELSE ROLE_RATE_MAP

C15_DiagramRun == call = "generate" /\ arch_run.calls > 0

\* C15: after a generate_architecture that returned a path, the blob at that
\* path exists: deleting the old diagram has not removed the new one
C15_NewBlobExists ==
  (C15_DiagramRun /\ arch_blob # "") => arch_blob \in store

\* C16: when the calls of the model gave no DOT text (the request failed or
\* the call raised), the model was called three times before the fallback
\* diagram was made
C16_ThreeAttempts ==
  (C15_DiagramRun /\ arch_run.chat[Len(arch_run.chat)] # "dot") =>
    /\ arch_run.fallback
    /\ arch_run.calls = 3

\* the last generate_architecture did not store the model's diagram
C17_DiagramFailed == C15_DiagramRun /\ (arch_run.fallback \/ arch_run.raised)

\* C17: without DOT text or when Graphviz fails on it the fallback diagram is
\* made (stored and returned when its own rendering and upload go through);
\* and whenever no diagram of the model is stored, generate_project_scope
\* returns the normalized scope of the response with architecture_diagram the
\* fallback path or None, and what it saved is that scope
C17_DiagramFallback ==
  C15_DiagramRun =>
    /\ (arch_run.chat[Len(arch_run.chat)] # "dot" \/ arch_run.render = "fails") =>
         /\ arch_run.fallback
         /\ (arch_run.fallback_render = "ok" /\ arch_run.upload = "ok") =>
              /\ arch_blob = FallbackPng
              /\ FallbackPng \in store
    /\ C17_DiagramFailed =>
         LET cleaned == CleanScope(db, AsScope(ExtractJson(raw_text).value))
         IN /\ result # EmptyDict
            /\ result.activities = cleaned.activities
            /\ result.resourcing_plan = cleaned.resourcing_plan
            /\ result.architecture_diagram \in {FallbackPng, "<None>"}
            /\ (\E i \in DOMAIN trace : trace[i] = "upload_bytes") => blob = result

\* the upload of the fallback diagram raised, and the scope was returned and
\* saved without a diagram
C17_Witness ==
  /\ C17_DiagramFailed
  /\ arch_run.fallback
  /\ arch_run.raised
  /\ result.architecture_diagram = "<None>"
  /\ Len(result.activities) = 2
  /\ blob = result


(***************************************************************************)
(* Properties of embed_text_ollama, checked under SpecEmbed                *)
(***************************************************************************)
\* the number of requests the last embed_text_ollama made
C18_Requests == Count("requests.post", embed.trace)

\* C18: embed_text_ollama makes at most two requests; when the first fails
\* it waits and makes exactly one more; when that fails too it returns the
\* empty list; and after a first request that succeeds there is no second
C18_RetryOnce ==
  embed.called =>
    /\ C18_Requests <= 2
    /\ C18_Requests >= 1 =>
         /\ embed.responses[1] \in BadResponses =>
              embed.trace = <<"requests.post", "time.sleep", "requests.post">>
         /\ (embed.responses[1] \in BadResponses /\ embed.responses[2] \in BadResponses)
              => embed.result = <<>>
         /\ (embed.responses[1] \in BadResponses /\ embed.responses[2] \in GoodResponses)
              => embed.result # <<>>
         /\ embed.responses[1] \in GoodResponses =>
              /\ embed.trace = <<"requests.post">>
              /\ embed.result # <<>>

\* a refused request and then an error status: two requests, the empty list
C18_Witness ==
  /\ embed.called
  /\ embed.responses = <<Refused, HttpError>>
  /\ embed.trace = <<"requests.post", "time.sleep", "requests.post">>
  /\ embed.result = <<>>


(***************************************************************************)
(* Properties of _extract_text_from_files, checked under SpecExtract       *)
(***************************************************************************)
\* file i of the batch has text: its download and its parser succeed and
\* what is read is a str with more than white space in it
C19_HasText(i) ==
  /\ files[i].download = "ok"
  /\ files[i].parse = "ok"
  /\ files[i].content \notin {None, Str(""), Padded("")}

\* the stripped texts of the files that have text, in the order of the files
C19_Texts ==
  LET good == SelectSeq(List([i \in DOMAIN files |-> i]), C19_HasText)
  IN List([k \in DOMAIN good |-> Strip(files[good[k]].content)])

\* the members of a list
C19_Range(list) == {list[i] : i \in DOMAIN list}

\* C19: a download or parsing failure of one file does not abort the batch:
\* the call returns once every task is through, the text of every file that
\* has text is among the texts joined, and when no file has text the result
\* is the empty string
C19_FailureIsolated ==
  /\ (rfp_text.started /\ ~rfp_text.returned /\ AllFinished(task)) => ENABLED ReturnText
  /\ \A i \in DOMAIN task :
       (task[i] = "done" /\ C19_HasText(i)) =>
         Strip(files[i].content) \in C19_Range(results)
  /\ rfp_text.returned =>
       /\ \A i \in DOMAIN files :
            C19_HasText(i) => Strip(files[i].content) \in C19_Range(results)
       /\ rfp_text.text = Join(results)
       /\ C19_Texts = <<>> => rfp_text.text = ""

\* a batch whose first file fails to download and whose second is read
C19_Witness ==
  /\ rfp_text.returned
  /\ Len(files) = 3
  /\ files[1].download = "raises"
  /\ files[2].parse = "raises"
  /\ C19_HasText(3)
  /\ rfp_text.text = "beta"

\* the joins of the texts in every order
C20_Joins(texts) ==
  {Join(List([i \in DOMAIN texts |-> texts[p[i]]])) : p \in Permutations(DOMAIN texts)}

\* C20: whatever the order in which the tasks run and end, the result is the
\* join of exactly the texts of the files that have text, each once for each
\* file it comes from, and it is made only when every task has finished
C20_OrderIndependent ==
  rfp_text.returned =>
    /\ AllFinished(task)
    /\ Len(results) = Len(C19_Texts)
    /\ \A x \in C19_Range(C19_Texts) \cup C19_Range(results) :
         Count(x, results) = Count(x, C19_Texts)
    /\ rfp_text.text \in C20_Joins(C19_Texts)

\* two files with text whose tasks end in the other order, and a file with
\* the same text as another
C20_Witness ==
  /\ rfp_text.returned
  /\ Len(files) = 3
  /\ files[1].content = Str("alpha")
  /\ files[2].content = Padded("beta")
  /\ files[3].content = Str("alpha")
  /\ rfp_text.text = "beta\n\nalpha\n\nalpha"

(***************************************************************************)
(* Further properties of the normalizer, checked under SpecNorm            *)
(***************************************************************************)
\* a date string is there and names a day of the calendar
C22_Valid(v) ==
  /\ v # Missing
  /\ v[1] >= 1
  /\ v[2] \in 1..12
  /\ v[3] \in 1..DaysInMonth(v[1], v[2])

\* the activity of the result that came from activity i of the request (the
\* names of a request are distinct)
C22_Cleaned(i) ==
  CHOOSE a \in {result.activities[k] : k \in DOMAIN result.activities} :
    a.Activities = Strip(scope_data.activities[i].Activities)

\* C22: the start date of a cleaned activity is the request's when that is a
\* valid date and today (2025-01-10) otherwise; its end date is the request's
\* when that is valid and not before the start, and 30 days after the start
\* otherwise.
C22_DateRepair ==
  call # "none" =>
    \A i \in DOMAIN scope_data.activities :
      LET raw == scope_data.activities[i]
          out == C22_Cleaned(i)
          start == IF C22_Valid(raw.StartDate) THEN raw.StartDate ELSE <<2025, 1, 10>>
      IN /\ out.StartDate = start
         /\ IF C22_Valid(raw.EndDate) /\ DateLeq(start, raw.EndDate)
            THEN out.EndDate = raw.EndDate
            ELSE StrpTime(out.EndDate) = StrpTime(start) + 30

\* a request with an end before the start, and one with a start that is not
\* in the calendar and no end: 2025-01-20..2025-02-19 and 2025-01-10..2025-02-09
C22_Witness ==
  /\ call = "finalize"
  /\ Len(scope_data.activities) = 2
  /\ scope_data.activities[1].StartDate = Jan(20)
  /\ scope_data.activities[1].EndDate = Jan(1)
  /\ scope_data.activities[2].StartDate = Feb(30)
  /\ scope_data.activities[2].EndDate = Missing
  /\ result.activities[1].StartDate = Jan(10)
  /\ result.activities[1].EndDate = Feb(9)
  /\ result.activities[2].StartDate = Jan(20)
  /\ result.activities[2].EndDate = Feb(19)

\* the days from the earliest start to the latest end of the result's
\* activities, 0 when there are none
C23_Span ==
  LET acts == result.activities
      starts == {StrpTime(acts[i].StartDate) : i \in DOMAIN acts}
      ends == {StrpTime(acts[i].EndDate) : i \in DOMAIN acts}
  IN IF acts = <<>> THEN 0
     ELSE (CHOOSE x \in ends : \A y \in ends : y <= x)
            - (CHOOSE x \in starts : \A y \in starts : x <= y)

\* C23: the number of months K is the span in days divided by 30 and rounded
\* up, 1 for a span of 0 days and for no activities; every entry of the
\* resourcing plan has a value for each of Month 1..Month K and for no other
\* month.
C23_ProjectWindow ==
  call # "none" =>
    LET K == IF C23_Span = 0 THEN 1 ELSE (C23_Span + 29) \div 30
    IN \A i \in DOMAIN result.resourcing_plan :
         DOMAIN result.resourcing_plan[i].Months = 1..K

\* two activities spanning 31 days: two months
C23_Witness ==
  /\ call = "finalize"
  /\ Len(result.activities) = 2
  /\ C23_Span = 31
  /\ \A i \in DOMAIN result.resourcing_plan : Len(result.resourcing_plan[i].Months) = 2
  /\ result.resourcing_plan # <<>>

\* the roles of the cleaned activity that came from activity i of the
\* request: its owner, then its resources
C24_Roles(i) == <<C22_Cleaned(i).Owner>> \o SplitStrip(C22_Cleaned(i).Resources)

\* C24: the resourcing plan has one entry for every role name that is the
\* owner or a resource of a cleaned activity and no other entry, no role has
\* two entries, the entries follow the order in which the roles are first met
\* when the activities are processed in the order of the request, and the
\* IDs are 1..R in that order.
C24_PlanShape ==
  call # "none" =>
    LET plan == result.resourcing_plan
        roles == List([i \in DOMAIN scope_data.activities |-> C24_Roles(i)])
        \* the places where roles are met: the activity and the place among its
        \* roles, as one number
        places == UNION {{i * 100 + p : p \in DOMAIN roles[i]} : i \in DOMAIN roles}
        \* where the processing of the request first meets each role of the plan
        first_seen ==
          List([j \in DOMAIN plan |->
                 LET seen == {n \in places : roles[n \div 100][n % 100] = plan[j].Resources}
                 IN CHOOSE n \in seen : \A k \in seen : n <= k])
    IN /\ {plan[j].Resources : j \in DOMAIN plan}
            = {roles[n \div 100][n % 100] : n \in places}
       /\ \A j, k \in DOMAIN plan :
            /\ plan[j].ID = j
            /\ j < k => /\ plan[j].Resources # plan[k].Resources
                        /\ first_seen[j] < first_seen[k]

\* the activity processed first starts later and is listed second in the
\* result; its owner still has the first entry, and the dearer role the second
C24_Witness ==
  /\ call = "finalize"
  /\ Len(scope_data.activities) = 2
  /\ scope_data.activities[1].Owner = QAEngineer
  /\ scope_data.activities[2].Owner = BackendDeveloper
  /\ result.activities[1].Owner = BackendDeveloper
  /\ Len(result.resourcing_plan) = 2
  /\ result.resourcing_plan[1].Resources = QAEngineer
  /\ result.resourcing_plan[2].Resources = BackendDeveloper
  /\ result.resourcing_plan[1].Cost < result.resourcing_plan[2].Cost

\* C25: in the result no resource of an activity is its owner in another
\* case, an activity of the request without an owner has the owner
\* "Unassigned", and every activity is counted for its owner in the month
\* windows it overlaps, whether or not it has resources: the owner has a plan
\* entry whose value in such a month is at least the tier of the activity's
\* days in it.
C25_OwnerNormalized ==
  call # "none" =>
    LET acts == result.activities
        min_start == MinSeq(List([i \in DOMAIN acts |-> StrpTime(acts[i].StartDate)]))
    IN /\ \A i \in DOMAIN acts :
            LET a == acts[i]
                res == SplitStrip(a.Resources)
                months == EntryOf(result, a.Owner).Months
            IN /\ \A p \in DOMAIN res : Lower(res[p]) # Lower(a.Owner)
               /\ a.Owner \in PlanRoles(result)
               /\ \A m \in DOMAIN months :
                    months[m] >= Tier(OverlapDays(StrpTime(a.StartDate),
                                                  StrpTime(a.EndDate), min_start, m))
               /\ \E m \in DOMAIN months : months[m] > 0
       /\ \A i \in DOMAIN scope_data.activities :
            Falsy(scope_data.activities[i].Owner) => C22_Cleaned(i).Owner = Str("Unassigned")

\* an activity without owner whose only resource is "unassigned": the owner
\* is "Unassigned", no resource is left and the 8 days are counted for the
\* owner; and an activity whose resources name its owner in lower case
C25_Witness ==
  /\ call = "finalize"
  /\ Len(scope_data.activities) = 2
  /\ scope_data.activities[1].Owner = None
  /\ scope_data.activities[1].Resources = <<Padded("unassigned")>>
  /\ scope_data.activities[2].Owner = QAEngineer
  /\ scope_data.activities[2].Resources[1] = Str("qa engineer")
  /\ result.activities[1].Owner = Str("Unassigned")
  /\ result.activities[1].Resources = <<Str("")>>
  /\ result.activities[2].Resources = <<BackendDeveloper, Padded("Backend Developer")>>
  /\ EntryOf(result, Str("Unassigned")).Months = <<50>>

\* C26: for every activity of the result, the days counted for it in the
\* windows Month 1..Month K add up to its days from start to end, both
\* included: every day is in one window and in no other.
C26_WindowsPartition ==
  call # "none" =>
    LET acts == result.activities
        min_start == MinSeq(List([i \in DOMAIN acts |-> StrpTime(acts[i].StartDate)]))
    IN \A i \in DOMAIN acts :
         LET s == StrpTime(acts[i].StartDate)
             e == StrpTime(acts[i].EndDate)
             K == IF result.resourcing_plan = <<>> THEN 1
                  ELSE Len(result.resourcing_plan[1].Months)
         IN SumSeq(List([m \in 1..K |-> OverlapDays(s, e, min_start, m)])) = e - s + 1

\* C27: normalizing the scope that clean_scope returned gives the same
\* resourcing plan as the first pass: the same roles in the same order with the
\* same IDs, monthly values, Efforts and Cost, whatever the order of the
\* activities in the first request
C27_PlanStable ==
  call = "again" => result.resourcing_plan = prev_result.resourcing_plan

(***************************************************************************)
(* Further properties of regenerate_from_instructions, checked under       *)
(* SpecRegen                                                               *)
(***************************************************************************)
\* the last call had instructions and its try block raised: the response
\* parsed to a list, or an activity of it has a null name, description or
\* owner
C29_Raised ==
  /\ call = "regenerate"
  /\ ~Blank(instructions)
  /\ LET parsed == ExtractJson(raw_text)
     IN \/ parsed.type # "dict"
        \/ \E i \in DOMAIN GetActivities(parsed.value) :
             LET act == GetActivities(parsed.value)[i]
             IN Null \in {act.Owner, act.Description, act.Activities}

C28_CostsInRange ==
  (call # "none" /\ DiscountApplies(result.discount_percentage)) =>
    \A i \in DOMAIN result.resourcing_plan :
      LET entry == result.resourcing_plan[i]
      IN /\ entry.Cost >= 0
         /\ entry.Cost <= BaseCost(entry.Efforts, entry.Rate)

(***************************************************************************)
(* The file records of a project, checked under SpecSave                   *)
(***************************************************************************)
\* C30: whatever calls ran on the project and however their steps fell
\* between each other, the project has at most one file record named
\* finalized_scope.json, at most one named architecture.png and at most one
\* named architecture.svg
C30_RecordsUnique ==
  /\ file_records <= 1
  /\ \A name \in {"architecture.png", "architecture.svg"} :
       Cardinality({i \in DOMAIN project_files : project_files[i].file_name = name}) <= 1

(***************************************************************************)
(* The order of the steps of generate_project_scope, checked under         *)
(* SpecPipeline                                                            *)
(***************************************************************************)
\* the place of a step in the pipeline
C21_Rank(step) ==
  CASE step = "embed" -> 2
    [] step = "retrieve" -> 3
    [] step = "build prompt" -> 4
    [] step = "generate" -> 5
    [] step = "validate" -> 6
    [] step = "normalize" -> 7
    [] step = "diagram generation" -> 8
    [] step = "persist" -> 9

\* C21: within one generate_project_scope at most one model or embedding
\* call is in flight; the steps begin in the order extract, embed, retrieve,
\* build prompt, generate, validate, normalize, diagram generation, persist
\* (only the diagram's call is repeated); every task of the extraction has
\* finished before the embedding begins; and a call that persists has gone
\* through all the steps before
C21_Sequencing ==
  LET log == pipeline.log
  IN /\ Len(pipeline.in_flight) <= 1
     /\ \A i, j \in DOMAIN log :
          i < j => \/ C21_Rank(log[i]) < C21_Rank(log[j])
                   \/ log[i] = "diagram generation" /\ log[j] = "diagram generation"
     /\ log # <<>> => rfp_text.returned /\ AllFinished(task)
     /\ (\E i \in DOMAIN log : log[i] = "persist") =>
          \A step \in {"embed", "build prompt", "generate", "validate", "normalize",
                       "diagram generation"} :
            \E i \in DOMAIN log : log[i] = step

\* a call on three files went through every step, the diagram's call was made
\* three times, and the scope was saved
C21_Witness ==
  /\ pipeline.pc = "done"
  /\ Len(files) = 3
  /\ pipeline.calls = 3
  /\ pipeline.in_flight = <<>>
  /\ pipeline.log = <<"embed", "retrieve", "build prompt", "generate", "validate",
                      "normalize", "diagram generation", "diagram generation",
                      "diagram generation", "persist">>

=============================================================================
